---- MODULE Spec2Model ----
(***************************************************************************)
(* State-machine model of rainman2's simulated cellular network            *)
(* (lib/environment/cellular/dev/network.py, class StaticNetwork) and of   *)
(* the utility layer it is built on (dev/utils.py).                        *)
(*                                                                         *)
(* Numbers: the code rounds every physical quantity to 3 decimals          *)
(* (np.around(..., decimals=3)).  The model stores such a quantity as the  *)
(* integer number of thousandths: a distance of 1.414 is 1414, a bandwidth *)
(* of 2.0 is 2000, a distance factor of 0.171 is 171.                      *)
(***************************************************************************)
EXTENDS Integers, Sequences, FiniteSets, TLC

\* Python's None, and a value that is not None: a variable or field that can
\* hold None holds None or Some(v)
None == <<>>
Some(v) == <<v>>

(***************************************************************************)
(* Constructor arguments of StaticNetwork and bounds of the model.         *)
(***************************************************************************)
num_aps == 4
scale == 2
explore_radius == 1

\* class AP: max_connections
max_connections == 50

\* number of UEs of the exhaustively explored network
NumUes == 2
\* number of UEs of the loaded network (a hot spot on one AP)
CrowdUes == 13
\* number of UEs of the network the environment works on
EnvUes == 2

\* the most APs a network placed for its own sake is asked to have
MaxAps == 10

\* the largest coordinate of the lists get_interval is tried on
MaxCoord == 6

\* the largest explore radius the neighbour search is tried with
MaxRadius == 3

\* number of UEs of the network whose neighbour lists are read
NeighborUes == 1

(***************************************************************************)
(* utils.py                                                                *)
(***************************************************************************)
APPS_DICT == [web |-> 250, video |-> 2000, voice |-> 100, others |-> 50]

Apps == DOMAIN APPS_DICT

Min(a, b) == IF a <= b THEN a ELSE b

\* np.around of the quotient a / b (a >= 0, b > 0): round half to even
RoundHalfEven(a, b) ==
    LET q == a \div b
        r == a % b
    IN  IF 2 * r < b THEN q
        ELSE IF 2 * r > b THEN q + 1
        ELSE IF q % 2 = 0 THEN q ELSE q + 1

\* the possible results of get_ue_app: "web" (prob < 0.7) or "video"
get_ue_app == {"web", "video"}

Sum(seq) ==
    LET RECURSIVE S(_)
        S(i) == IF i = 0 THEN 0 ELSE seq[i] + S(i - 1)
    IN  S(Len(seq))

\* np.random.randint(_min, _max): the integers _min .. _max - 1, on both axes
get_random_location(_min, _max) ==
    {<<x, y>> : x \in _min .. (_max - 1), y \in _min .. (_max - 1)}

\* mid_point -/+ 1.5 * scale; scale is even in the model, so the bounds are integers
get_center_grid(scale_, aps) ==
    LET mid_point == Sum(aps) \div Len(aps)
    IN  get_random_location(mid_point - (3 * scale_) \div 2,
                            mid_point + (3 * scale_) \div 2)

\* the locations get_ue_location can return for a UE running app_type
get_ue_location(app_type, scale_, aps) ==
    IF app_type = "video"
    THEN get_center_grid(scale_, aps)
    ELSE get_random_location(0, 1 + (2 * Len(aps)) * scale_)

\* get_interval that gives a value outside the list the edge interval
get_interval_edge(value, num_list) ==
    LET n == Len(num_list)
    IN  IF value <= num_list[1] THEN <<num_list[1], num_list[2]>>
        ELSE IF value >= num_list[n] THEN <<num_list[n - 1], num_list[n]>>
        ELSE LET index == CHOOSE i \in 1 .. n :
                              /\ value <= num_list[i]
                              /\ \A j \in 1 .. (i - 1) : ~(value <= num_list[j])
             IN  <<num_list[index - 1], num_list[index]>>

get_interval(value, num_list) ==
    LET n == Len(num_list)
    IN  IF value < num_list[1] THEN <<num_list[1], num_list[1]>>
        ELSE IF value > num_list[n] THEN <<num_list[n], num_list[n]>>
        ELSE IF value = num_list[1] THEN <<num_list[1], num_list[2]>>
        ELSE IF value = num_list[n] THEN <<num_list[n - 1], num_list[n]>>
        ELSE LET index == CHOOSE i \in 1 .. n :
                              /\ value <= num_list[i]
                              /\ \A j \in 1 .. (i - 1) : ~(value <= num_list[j])
             IN  <<num_list[index - 1], num_list[index]>>

\* list(set(product(...))): the distinct corner locations
get_aps_in_grid(ue_location, aps) ==
    LET _min_interval == get_interval(ue_location[1], aps)
        _max_interval == get_interval(ue_location[2], aps)
    IN  {<<x, y>> : x \in {_min_interval[1], _min_interval[2]},
                    y \in {_max_interval[1], _max_interval[2]}}

InSeq(v, seq) == \E i \in 1 .. Len(seq) : seq[i] = v

valid_ap(ap, aps) == InSeq(ap[1], aps) /\ InSeq(ap[2], aps)

get_valid_neighbors(ap, aps) ==
    LET step == aps[2] - aps[1]
        _aps == {<<ap[1] - step, ap[2]>>, <<ap[1] + step, ap[2]>>,
                 <<ap[1], ap[2] - step>>, <<ap[1], ap[2] + step>>}
    IN  {a \in _aps : valid_ap(a, aps)}

RECURSIVE get_extended_neighboring_aps(_, _, _)
get_extended_neighboring_aps(closest_aps, aps, radius) ==
    IF radius = 0 THEN closest_aps
    ELSE get_extended_neighboring_aps(
             closest_aps \cup UNION {get_valid_neighbors(ap, aps) : ap \in closest_aps},
             aps, radius - 1)

get_neighboring_aps(ue_location, aps, radius) ==
    LET neighboring_aps_in_grid == get_aps_in_grid(ue_location, aps)
        rest == IF radius > 1
                THEN get_extended_neighboring_aps(
                         neighboring_aps_in_grid, aps, radius - 1)
                     \ neighboring_aps_in_grid
                ELSE {}
    IN  [within_grid |-> neighboring_aps_in_grid, rest |-> rest]

\* np.around(math.exp(-d / (2 * scale)), 3) in thousandths, for scale = 2 and
\* d = np.around(sqrt(dsq), 3), tabulated by dsq = 0 .. 200
ExpTable ==
    <<1000,
      779, 702, 649, 607, 572, 542, 516, 493, 472, 454,
      436, 421, 406, 392, 380, 368, 357, 346, 336, 327,
      318, 310, 301, 294, 287, 280, 273, 266, 260, 254,
      249, 243, 238, 233, 228, 223, 219, 214, 210, 206,
      202, 198, 194, 190, 187, 184, 180, 177, 174, 171,
      168, 165, 162, 159, 157, 154, 151, 149, 147, 144,
      142, 140, 137, 135, 133, 131, 129, 127, 125, 123,
      122, 120, 118, 116, 115, 113, 111, 110, 108, 107,
      105, 104, 103, 101, 100, 98, 97, 96, 95, 93,
      92, 91, 90, 89, 87, 86, 85, 84, 83, 82,
      81, 80, 79, 78, 77, 76, 75, 74, 74, 73,
      72, 71, 70, 69, 68, 68, 67, 66, 65, 65,
      64, 63, 62, 62, 61, 60, 60, 59, 58, 58,
      57, 57, 56, 55, 55, 54, 54, 53, 52, 52,
      51, 51, 50, 50, 49, 49, 48, 48, 47, 47,
      46, 46, 45, 45, 44, 44, 44, 43, 43, 42,
      42, 42, 41, 41, 40, 40, 40, 39, 39, 38,
      38, 38, 37, 37, 37, 36, 36, 36, 35, 35,
      35, 34, 34, 34, 33, 33, 33, 32, 32, 32,
      32, 31, 31, 31, 30, 30, 30, 30, 29, 29>>

\* largest squared distance between two grid points that ExpTable covers
MaxDsq == Len(ExpTable) - 1

\* round(1000 * sqrt(dsq)), by integer search: np.around(np.linalg.norm(.), 3)
DistanceTable ==
    [dsq \in 0 .. MaxDsq |->
        LET k == CHOOSE k \in 0 .. 15 : k * k <= dsq /\ dsq < (k + 1) * (k + 1)
        IN  CHOOSE r \in (1000 * k) .. (1000 * (k + 1)) :
                /\ (r = 0 \/ (2 * r - 1) * (2 * r - 1) <= 4000000 * dsq)
                /\ 4000000 * dsq < (2 * r + 1) * (2 * r + 1)]

get_ue_ap_distance(ap_location, ue_location) ==
    LET dx == ap_location[1] - ue_location[1]
        dy == ap_location[2] - ue_location[2]
    IN  DistanceTable[dx * dx + dy * dy]

\* get_closest_ap_location with the comparison turned round (distance > min_distance)
get_closest_ap_location_farthest(neighboring_aps, ue_location) ==
    {a \in neighboring_aps :
        \A b \in neighboring_aps :
            get_ue_ap_distance(a, ue_location) >= get_ue_ap_distance(b, ue_location)}

\* the members of neighboring_aps at the least distance from the UE:
\* get_closest_ap_location returns the first of them in the list's order,
\* and the list is list(set(...)), whose order is the set's iteration order
get_closest_ap_location(neighboring_aps, ue_location) ==
    {a \in neighboring_aps :
        \A b \in neighboring_aps :
            get_ue_ap_distance(a, ue_location) <= get_ue_ap_distance(b, ue_location)}

\* the distance is that of two grid points: its square, rounded, is their dsq
calculate_distance_factor(ue_ap_distance, scale_) ==
    ExpTable[1 + (ue_ap_distance * ue_ap_distance + 500000) \div 1000000]

\* np.around(distance_factor * ap_channel_bandwidth, 3)
calculate_radio_bandwidth(distance_factor, ap_channel_bandwidth) ==
    RoundHalfEven(distance_factor * ap_channel_bandwidth, 1000)

\* np.around(ap_factor * ap_uplink_bandwidth, 3), ap_factor = 1 / n_ues_on_ap
calculate_network_bandwidth(n_ues_on_ap, ap_uplink_bandwidth) ==
    IF n_ues_on_ap # 0
    THEN RoundHalfEven(ap_uplink_bandwidth, n_ues_on_ap)
    ELSE ap_uplink_bandwidth

get_ue_throughput(scale_, ue_ap_distance, n_ues_on_ap, ap_uplink_bandwidth, ap_channel_bandwidth, app_required_bandwidth) ==
    LET distance_factor == calculate_distance_factor(ue_ap_distance, scale_)
        radio_bandwidth ==
            calculate_radio_bandwidth(distance_factor, ap_channel_bandwidth)
        network_bandwidth ==
            calculate_network_bandwidth(n_ues_on_ap, ap_uplink_bandwidth)
    IN  Min(Min(radio_bandwidth, network_bandwidth), app_required_bandwidth)

\* round(log10(1 / d^2)) = k exactly when 10^(-k/2 - 1/4) < d < 10^(-k/2 + 1/4);
\* the bounds in thousandths: 177.8, 562.3, 1778.3, 5623.4, 17782.8
get_ue_sig_power(ue_ap_distance) ==
    IF ue_ap_distance = 0 THEN None
    ELSE IF ue_ap_distance <= 177 THEN Some(2)
    ELSE IF ue_ap_distance <= 562 THEN Some(1)
    ELSE IF ue_ap_distance <= 1778 THEN Some(0)
    ELSE IF ue_ap_distance <= 5623 THEN Some(-1)
    ELSE IF ue_ap_distance <= 17782 THEN Some(-2)
    ELSE Some(-3)

\* the values calculate_ue_sla's docstring names: 1 meets, -1 doesn't meet
get_ue_sla_signed(ue_throughput, ue_required_bandwidth) ==
    IF ue_throughput >= ue_required_bandwidth THEN 1 ELSE -1

get_ue_sla(ue_throughput, ue_required_bandwidth) ==
    IF ue_throughput >= ue_required_bandwidth THEN 1 ELSE 0

\* class AP: a freshly constructed record
AP(ap_id, location) ==
    [ap_id |-> ap_id,
     location |-> location,
     n_ues |-> [key \in Apps |-> {}],
     ues_meeting_sla |-> [key \in Apps |-> 0],
     max_connections |-> 50,
     uplink_bandwidth |-> 25000,
     channel_bandwidth |-> 10000]

\* class UE: a freshly constructed record (distance, throughput, sla and
\* signal_power at the constructor's defaults)
UE(ue_id, ap, location, app, required_bandwidth, neighboring_aps) ==
    [ue_id |-> ue_id,
     ap |-> ap,
     location |-> location,
     app |-> app,
     required_bandwidth |-> required_bandwidth,
     neighboring_aps |-> neighboring_aps,
     distance |-> 0,
     throughput |-> 0,
     sla |-> 1,
     signal_power |-> Some(-100)]

(***************************************************************************)
(* network.py: class StaticNetwork                                         *)
(***************************************************************************)
VARIABLES
    num_ues,                 \* self.num_ues
    location_to_ap_lookup,   \* self._location_to_ap_lookup
    ap_dict,                 \* self._ap_dict: Some(ap_id -> AP), or None
    ue_dict,                 \* self._ue_dict: Some(ue_id -> UE), or None
    result,                  \* what the last call returned or raised
    prev_ap_dict,            \* self._ap_dict as it was when that call was made
    prev_ue_dict,            \* self._ue_dict as it was when that call was made
    query,                   \* the accessor call made last, if no other call
                             \* followed it, and what it returned or raised
    env_ap_dict,             \* CellularNetworkEnv._ap_dict
    env_ue_dict,             \* CellularNetworkEnv._ue_dict
    env_result,              \* what the environment's last call returned or raised
    env_call,                \* that call, and the requests it sent to the client
    handoffs                 \* the handoff requests being served at once: where
                             \* each is in handoff_to_ap, and its local names

\* the requests a server thread can be serving
Requests == {1, 2}

\* no request has arrived
NoHandoffs ==
    [request \in Requests |-> [pc |-> "idle", ue_id |-> 0, new_ap_id |-> 0,
                               current_ap |-> 0, raised |-> "None",
                               overlapped |-> FALSE]]

\* the variables of the environment
env_vars == <<env_ap_dict, env_ue_dict, env_result, env_call>>

vars == <<num_ues, location_to_ap_lookup, ap_dict, ue_dict, result,
          prev_ap_dict, prev_ue_dict, query, env_ap_dict, env_ue_dict,
          env_result, env_call, handoffs>>

\* int(math.sqrt(self.num_aps))
x_units == CHOOSE k \in 0 .. num_aps : k * k <= num_aps /\ num_aps < (k + 1) * (k + 1)

aps_per_axis == [i \in 1 .. x_units |-> (1 + (2 * (i - 1))) * scale]

\* the ap_id _place_aps gives the AP at (aps_per_axis[i], aps_per_axis[j]):
\* xloc is the outer loop, yloc the inner one, ap_id counts from 1
PlacedId(i, j) == 1 + (i - 1) * x_units + j - 1

\* the dictionary _place_aps returns
_place_aps ==
    [ap_id \in 1 .. (x_units * x_units) |->
        LET i == 1 + ((ap_id - 1) \div x_units)
            j == 1 + ((ap_id - 1) % x_units)
        IN  AP(ap_id, <<aps_per_axis[i], aps_per_axis[j]>>)]

\* self._location_to_ap_lookup as _place_aps fills it
PlacedLookup ==
    [location \in {<<aps_per_axis[i], aps_per_axis[j]>> :
                      i \in 1 .. x_units, j \in 1 .. x_units} |->
        CHOOSE ap_id \in 1 .. (x_units * x_units) :
            _place_aps[ap_id].location = location]

\* neighboring_ap_ids that keeps the current AP in the list
neighboring_ap_ids_all(lookup, current_ap_location, neighboring_aps) ==
    {lookup[ap_location] : ap_location \in neighboring_aps}

neighboring_ap_ids(lookup, current_ap_location, neighboring_aps) ==
    {lookup[ap_location] : ap_location \in neighboring_aps \ {current_ap_location}}

fetch_neighboring_aps(lookup, ue, ap) ==
    LET neighboring_aps ==
            get_neighboring_aps(ue.location, aps_per_axis, explore_radius)
        all_neighboring_aps == neighboring_aps.within_grid \cup neighboring_aps.rest
    IN  neighboring_ap_ids(lookup, ap.location, all_neighboring_aps)

update_neighboring_aps(lookup, ue, new_ap) ==
    [ue EXCEPT !.neighboring_aps = fetch_neighboring_aps(lookup, ue, new_ap)]

\* reduce(lambda x, y: x + y, [len(values) for values in n_ues_dict.values()])
total_ues(n_ues_dict) ==
    Cardinality(n_ues_dict["web"]) + Cardinality(n_ues_dict["video"])
    + Cardinality(n_ues_dict["voice"]) + Cardinality(n_ues_dict["others"])

\* the throughput with only the other UEs of the AP counted
calculate_ue_throughput_others(current_ap, ue_ap_distance, ue_required_bandwidth) ==
    LET ap_n_ues == total_ues(current_ap.n_ues) - 1
    IN  get_ue_throughput(scale, ue_ap_distance, ap_n_ues,
                          current_ap.uplink_bandwidth,
                          current_ap.channel_bandwidth,
                          ue_required_bandwidth)

calculate_ue_throughput(current_ap, ue_ap_distance, ue_required_bandwidth) ==
    LET ap_n_ues == total_ues(current_ap.n_ues)
    IN  get_ue_throughput(scale, ue_ap_distance, ap_n_ues,
                          current_ap.uplink_bandwidth,
                          current_ap.channel_bandwidth,
                          ue_required_bandwidth)

\* the value returned; the Meets / Doesnot counters of ue_sla_stats are
\* troubleshooting output that nothing reads, and are not part of the state
calculate_ue_sla(ue_throughput, ue_required_bandwidth) ==
    get_ue_sla(ue_throughput, ue_required_bandwidth)

calculate_ue_signal_power(ue_ap_distance) == get_ue_sig_power(ue_ap_distance)

\* update_ue_stats(ue, ap) on the AP map aps, ap = aps[ap_id]:
\* the UE and the AP map as the call leaves them
update_ue_stats(aps, ue, ap_id) ==
    LET ap == aps[ap_id]
        distance == get_ue_ap_distance(ue.location, ap.location)
        throughput == calculate_ue_throughput(ap, distance, ue.required_bandwidth)
        sla == calculate_ue_sla(throughput, ue.required_bandwidth)
    IN  [ue |-> [ue EXCEPT !.distance = distance,
                           !.throughput = throughput,
                           !.sla = sla,
                           !.signal_power = calculate_ue_signal_power(distance)],
         aps |-> [aps EXCEPT ![ap_id].ues_meeting_sla[ue.app] = @ + sla]]

\* The random draws of one UE's construction: the app get_ue_app returns, the
\* location get_ue_location returns, and the AP location get_ue_ap returns as
\* the closest one.
UeDraws(locations) ==
    {[app |-> app, location |-> location, closest |-> closest] :
        app \in get_ue_app, location \in locations,
        closest \in UNION {get_closest_ap_location(
                               get_aps_in_grid(l, aps_per_axis), l) : l \in locations}}

ValidDraw(d) ==
    /\ d.location \in get_ue_location(d.app, scale, aps_per_axis)
    /\ d.closest \in get_closest_ap_location(
                         get_neighboring_aps(d.location, aps_per_axis,
                                             explore_radius).within_grid,
                         d.location)

\* the neighbors get_ue_ap returns with the closest AP
get_ue_ap_neighbors(ue_location) ==
    LET neighboring_aps == get_neighboring_aps(ue_location, aps_per_axis, explore_radius)
    IN  neighboring_aps.within_grid \cup neighboring_aps.rest

\* One iteration of _instantiate_ues's loop, draw being its random draws, on
\* maps = [ap_dict, ue_dict]: the two maps as the iteration leaves them
instantiate_ue(ue_id, draw, lookup, maps) ==
    LET ue_app == draw.app
        required_bandwidth == APPS_DICT[ue_app]
        ue_location == draw.location
        current_ap_location == draw.closest
        current_ap_id == lookup[current_ap_location]
        attached == [maps.ap_dict EXCEPT
                        ![current_ap_id].n_ues[ue_app] = @ \cup {ue_id}]
        new_ue == UE(ue_id, current_ap_id, ue_location, ue_app,
                     required_bandwidth,
                     neighboring_ap_ids(lookup, current_ap_location,
                                        get_ue_ap_neighbors(ue_location)))
        updated == update_ue_stats(attached, new_ue, current_ap_id)
    IN  [ue_dict |-> Append(maps.ue_dict, updated.ue),
         ap_dict |-> updated.aps]

\* The iterations lo .. hi of the loop, in the loop's order, on maps: the
\* first half of them, then the second half on what the first half leaves.
\* ue_dict[ue_id] = new_ue ends every iteration, so the first half leaves mid
\* UEs; testing that has the first half evaluated before the second begins.
RECURSIVE instantiate_range(_, _, _, _, _)
instantiate_range(lo, hi, draws, lookup, maps) ==
    IF lo > hi THEN maps
    ELSE IF lo = hi THEN instantiate_ue(lo, draws[lo], lookup, maps)
    ELSE LET mid == (lo + hi) \div 2
             first_half == instantiate_range(lo, mid, draws, lookup, maps)
         IN  IF Len(first_half.ue_dict) = mid
             THEN instantiate_range(mid + 1, hi, draws, lookup, first_half)
             ELSE first_half

\* _instantiate_ues with num_ues = n, draws[ue_id] being the random draws of
\* iteration ue_id; aps is self._ap_dict when the method starts
_instantiate_ues(n, draws, lookup, aps) ==
    instantiate_range(1, n, draws, lookup, [ap_dict |-> aps, ue_dict |-> <<>>])

\* what a call returned (raised = "None") or the exception it raised
Returned(value) == [raised |-> "None", returned |-> value]
Raised(exception) == [raised |-> exception, returned |-> None]

\* the object StaticNetwork(n, num_aps, scale, explore_radius) constructs
Constructed(n, draws) ==
    LET built == _instantiate_ues(n, draws, PlacedLookup, _place_aps)
    IN  /\ num_ues = n
        /\ location_to_ap_lookup = PlacedLookup
        /\ ap_dict = Some(built.ap_dict)
        /\ ue_dict = Some(built.ue_dict)
        /\ result = Returned(None)
        /\ prev_ap_dict = None
        /\ prev_ue_dict = None
        /\ query = None
        /\ handoffs = NoHandoffs

\* CellularNetworkEnv.__init__: both caches are empty OrderedDicts
EnvConstructed ==
    /\ env_ap_dict = <<>>
    /\ env_ue_dict = <<>>
    /\ env_result = Returned(None)
    /\ env_call = None

\* the UE locations the exhaustively explored network draws from: next to AP 1
\* and far from AP 4; right of the grid's last column
SampleLocations == {<<1, 1>>, <<8, 5>>}

Init ==
    /\ \E draws \in [1 .. NumUes -> {d \in UeDraws(SampleLocations) : ValidDraw(d)}] :
           Constructed(NumUes, draws)
    /\ EnvConstructed

\* handoff_to_ap, "remove this ue from current AP": the set
remove_keeps_ue(aps, ue) == aps

remove_clears_class(aps, ue) ==
    [aps EXCEPT ![ue.ap].n_ues[ue.app] = {}]

remove_from_current_ap(aps, ue) ==
    [aps EXCEPT ![ue.ap].n_ues[ue.app] = @ \ {ue.ue_id}]

\* handoff_to_ap, "remove this ue from current AP": the SLA counter
decrement_skipped(aps, ue) == aps

decrement_current_ap_sla(aps, ue) ==
    [aps EXCEPT ![ue.ap].ues_meeting_sla[ue.app] = @ - ue.sla]

\* handoff_to_ap, "add current UE to the requested AP"
add_to_requested_ap(aps, ue, new_ap_id) ==
    [aps EXCEPT ![new_ap_id].n_ues[ue.app] = @ \cup {ue.ue_id}]

\* handoff_to_ap(ue, current_ap, new_ap_id) with ue = ues[ue_id] and
\* current_ap = aps[ue.ap]: the AP map and the UE map as the call leaves them,
\* and what it returns or raises
handoff_to_ap(aps, ues, lookup, ue_id, new_ap_id) ==
    LET ue == ues[ue_id]
        current_ap_id == ue.ap
        removed == decrement_current_ap_sla(remove_from_current_ap(aps, ue), ue)
        \* update AP for the UE
        moved == [ue EXCEPT !.ap = new_ap_id]
        added == add_to_requested_ap(removed, ue, new_ap_id)
        with_neighbors == update_neighboring_aps(lookup, moved, added[new_ap_id])
        updated == update_ue_stats(added, with_neighbors, new_ap_id)
    IN  IF ue.ue_id \notin aps[current_ap_id].n_ues[ue.app]
        THEN \* set.remove raises KeyError
             [aps |-> aps, ues |-> ues, result |-> Raised("KeyError")]
        ELSE IF new_ap_id \notin DOMAIN aps
        THEN \* validate_ap raises KeyError, after the removal
             [aps |-> removed, ues |-> ues, result |-> Raised("KeyError")]
        ELSE [aps |-> updated.aps,
              ues |-> [ues EXCEPT ![ue_id] = updated.ue],
              result |-> Returned(Some([DONE |-> TRUE,
                                        UE |-> Some(ue_id),
                                        OLD_AP |-> Some(current_ap_id),
                                        NEW_AP |-> Some(new_ap_id)]))]

\* the result of a handoff request for the AP the UE is on
Aborted == Returned(Some([DONE |-> FALSE, UE |-> None, OLD_AP |-> None,
                          NEW_AP |-> None]))

\* perform_handoff without the "requested ap is same as current ap" check
perform_handoff_no_abort(ue_id, ap_id) ==
    /\ prev_ap_dict' = ap_dict
    /\ prev_ue_dict' = ue_dict
    /\ UNCHANGED <<num_ues, location_to_ap_lookup>>
    /\ IF ue_dict = None \/ ap_dict = None
       THEN /\ result' = Raised("TypeError")
            /\ UNCHANGED <<ap_dict, ue_dict>>
       ELSE IF ue_id \notin DOMAIN ue_dict[1]
                \/ ue_dict[1][ue_id].ap \notin DOMAIN ap_dict[1]
       THEN /\ result' = Raised("KeyError")
            /\ UNCHANGED <<ap_dict, ue_dict>>
       ELSE LET done == handoff_to_ap(ap_dict[1], ue_dict[1],
                                      location_to_ap_lookup, ue_id, ap_id)
            IN  /\ ap_dict' = Some(done.aps)
                /\ ue_dict' = Some(done.ues)
                /\ result' = done.result

perform_handoff(ue_id, ap_id) ==
    /\ prev_ap_dict' = ap_dict
    /\ prev_ue_dict' = ue_dict
    /\ UNCHANGED <<num_ues, location_to_ap_lookup>>
    /\ IF ue_dict = None \/ ap_dict = None
       THEN \* self._ue_dict[ue_id] (self._ap_dict[ue.ap]) on None
            /\ result' = Raised("TypeError")
            /\ UNCHANGED <<ap_dict, ue_dict>>
       ELSE IF ue_id \notin DOMAIN ue_dict[1]
                \/ ue_dict[1][ue_id].ap \notin DOMAIN ap_dict[1]
       THEN \* validate_ue (self._ap_dict[ue.ap]) raises KeyError
            /\ result' = Raised("KeyError")
            /\ UNCHANGED <<ap_dict, ue_dict>>
       ELSE IF ue_dict[1][ue_id].ap = ap_id
       THEN /\ result' = Aborted
            /\ UNCHANGED <<ap_dict, ue_dict>>
       ELSE LET done == handoff_to_ap(ap_dict[1], ue_dict[1],
                                      location_to_ap_lookup, ue_id, ap_id)
            IN  /\ ap_dict' = Some(done.aps)
                /\ ue_dict' = Some(done.ues)
                /\ result' = done.result

\* reset_network: both maps are set to None, _place_aps fills the lookup again
\* and its return value is dropped, and _instantiate_ues reads
\* self._ap_dict[current_ap_id] in its first iteration
reset_network ==
    /\ prev_ap_dict' = ap_dict
    /\ prev_ue_dict' = ue_dict
    /\ ap_dict' = None
    /\ ue_dict' = None
    /\ location_to_ap_lookup' =
           [location \in DOMAIN location_to_ap_lookup \cup DOMAIN PlacedLookup |->
               IF location \in DOMAIN PlacedLookup
               THEN PlacedLookup[location]
               ELSE location_to_ap_lookup[location]]
    /\ result' = IF num_ues >= 1 THEN Raised("TypeError") ELSE Returned(None)
    /\ UNCHANGED num_ues

(***************************************************************************)
(* network.py: the accessors ("External APIs")                             *)
(***************************************************************************)
\* outcome, if it is an exception, and otherwise what F makes of the value
Then(outcome, F(_)) ==
    IF outcome.raised # "None" THEN outcome ELSE F(outcome.returned)

\* self._ue_dict[ue_id]: TypeError on None, KeyError (re-raised) on a missing id
validate_ue(ue_id) ==
    IF ue_dict = None THEN Raised("TypeError")
    ELSE IF ue_id \notin DOMAIN ue_dict[1] THEN Raised("KeyError")
    ELSE Returned(ue_dict[1][ue_id])

validate_ap(ap_id) ==
    IF ap_dict = None THEN Raised("TypeError")
    ELSE IF ap_id \notin DOMAIN ap_dict[1] THEN Raised("KeyError")
    ELSE Returned(ap_dict[1][ap_id])

\* an accessor that assigns nothing: the call and its outcome
Accessed(call, id, outcome) ==
    /\ query' = Some([call |-> call, id |-> id, result |-> outcome])
    /\ UNCHANGED <<num_ues, location_to_ap_lookup, ap_dict, ue_dict>>

\* [value.to_dict for value in self._ap_dict.values()]
ap_list ==
    Accessed("ap_list", None,
             IF ap_dict = None THEN Raised("AttributeError")
             ELSE Returned(ap_dict[1]))

ap_info(ap_id) == Accessed("ap_info", Some(ap_id), validate_ap(ap_id))

ue_list ==
    Accessed("ue_list", None,
             IF ue_dict = None THEN Raised("AttributeError")
             ELSE Returned(ue_dict[1]))

ue_info(ue_id) == Accessed("ue_info", Some(ue_id), validate_ue(ue_id))

ue_throughput(ue_id) ==
    Accessed("ue_throughput", Some(ue_id),
             Then(validate_ue(ue_id), LAMBDA ue : Returned(ue.throughput)))

\* ue_sla that brings the UE's stats up to date before it answers
ue_sla_refreshes(ue_id) ==
    LET ue == validate_ue(ue_id)
        updated == update_ue_stats(ap_dict[1], ue.returned, ue.returned.ap)
    IN  IF ue.raised # "None"
        THEN Accessed("ue_sla", Some(ue_id), ue)
        ELSE /\ query' = Some([call |-> "ue_sla", id |-> Some(ue_id),
                               result |-> Returned(updated.ue.sla)])
             /\ ap_dict' = Some(updated.aps)
             /\ ue_dict' = Some([ue_dict[1] EXCEPT ![ue_id] = updated.ue])
             /\ UNCHANGED <<num_ues, location_to_ap_lookup>>

ue_sla(ue_id) ==
    Accessed("ue_sla", Some(ue_id),
             Then(validate_ue(ue_id), LAMBDA ue : Returned(ue.sla)))

ue_signal_power(ue_id) ==
    Accessed("ue_signal_power", Some(ue_id),
             Then(validate_ue(ue_id), LAMBDA ue : Returned(ue.signal_power)))

\* the list is computed anew from the UE's location and its AP's
ue_neighboring_aps(ue_id) ==
    Accessed("ue_neighboring_aps", Some(ue_id),
             Then(validate_ue(ue_id), LAMBDA ue :
                 Then(validate_ap(ue.ap), LAMBDA current_ap :
                     Returned(fetch_neighboring_aps(location_to_ap_lookup,
                                                    ue, current_ap)))))

ap_sla(ap_id) ==
    Accessed("ap_sla", Some(ap_id),
             Then(validate_ap(ap_id), LAMBDA ap : Returned(ap.ues_meeting_sla)))

\* the accessors that take an id, and the others
IdAccessors == {"ap_info", "ue_info", "ue_throughput", "ue_sla",
                "ue_signal_power", "ue_neighboring_aps", "ap_sla"}

\* an accessor call, with any id in use, with 0 and with the id after the last
Accessor ==
    /\ \/ ap_list
       \/ ue_list
       \/ \E ap_id \in 0 .. (num_aps + 1) : ap_info(ap_id) \/ ap_sla(ap_id)
       \/ \E ue_id \in 0 .. (num_ues + 1) :
              \/ ue_info(ue_id)
              \/ ue_throughput(ue_id)
              \/ ue_sla(ue_id)
              \/ ue_signal_power(ue_id)
              \/ ue_neighboring_aps(ue_id)
    /\ UNCHANGED <<result, prev_ap_dict, prev_ue_dict>>
    /\ UNCHANGED env_vars
    /\ UNCHANGED handoffs

(***************************************************************************)
(* The network client: a call-forwarding boundary between the environment  *)
(* and the simulator. A call is answered with what the simulator returns,  *)
(* or fails with ExternalServerError, as it does when the simulator raises.*)
(***************************************************************************)
ExternalServerError == Raised("ExternalServerError")

\* what get_ap_list / get_ue_list can answer: a failure, an empty list, or
\* the simulator's list
client_get_ap_list ==
    {ExternalServerError, Returned(<<>>)}
        \cup (IF ap_dict = None THEN {} ELSE {Returned(ap_dict[1])})

client_get_ue_list ==
    {ExternalServerError, Returned(<<>>)}
        \cup (IF ue_dict = None THEN {} ELSE {Returned(ue_dict[1])})

\* the answer to perform_handoff when the simulator's call ended with outcome
\* and left the maps aps and ues (both Some or None)
client_perform_handoff(outcome, aps, ues) ==
    IF outcome.raised # "None" THEN ExternalServerError
    ELSE LET handoff_result == outcome.returned[1]
         IN  IF handoff_result.DONE
             THEN Returned([DONE |-> TRUE,
                            UE |-> ues[1][handoff_result.UE[1]],
                            OLD_AP |-> aps[1][handoff_result.OLD_AP[1]],
                            NEW_AP |-> aps[1][handoff_result.NEW_AP[1]]])
             ELSE Returned([DONE |-> FALSE])

(***************************************************************************)
(* base.py: class CellularNetworkEnv. Averages are in tenths and rewards   *)
(* in hundredths. An operator that models a method takes the caches and    *)
(* the answers of the client the method asks for, and gives the caches as  *)
(* the method leaves them, what it returns or raises, and the requests it  *)
(* sent.                                                                   *)
(***************************************************************************)
APPS_ID == [web |-> 1, video |-> 2]

STAY == 0
HANDOFF == 1

\* class AP and class UE of base.py
base_AP(ap_id, location, n_ues, ues_meeting_sla) ==
    [ap_id |-> ap_id, location |-> location, n_ues |-> n_ues,
     ues_meeting_sla |-> ues_meeting_sla]

base_UE(ue_id, ap, location, neighboring_aps, signal_power, app, sla) ==
    [ue_id |-> ue_id, ap |-> ap, location |-> location,
     neighboring_aps |-> neighboring_aps, signal_power |-> signal_power,
     app |-> app, sla |-> sla]

\* the exception handler calls self.logger.exceptions, which logging.Logger
\* does not have: the AttributeError replaces the ExternalServerError
execute_client_call(response) ==
    IF response.raised = "ExternalServerError" THEN Raised("AttributeError")
    ELSE response

\* the entry of a list of dicts with the given id under key
Listed(list, key, id) == list[CHOOSE i \in DOMAIN list : list[i][key] = id]

\* build_ap_dict: an AP is stored if its id is not in the cache yet
\* (self._reverse_ap_lookup, which nothing reads, is left out)
build_ap_dict(aps, ap_list_) ==
    LET listed == {ap_list_[i].ap_id : i \in DOMAIN ap_list_}
    IN  [ap_id \in DOMAIN aps \cup listed |->
            IF ap_id \in DOMAIN aps THEN aps[ap_id]
            ELSE LET ap == Listed(ap_list_, "ap_id", ap_id)
                 IN  base_AP(ap_id, ap.location, ap.n_ues, ap.ues_meeting_sla)]

\* build_ue_dict: "Populate UE dict is UE is new" (self.ue_sla_stats, which
\* nothing reads, is left out)
build_ue_dict(ues, ue_list_) ==
    LET listed == {ue_list_[i].ue_id : i \in DOMAIN ue_list_}
    IN  [ue_id \in DOMAIN ues \cup listed |->
            IF ue_id \in DOMAIN ues THEN ues[ue_id]
            ELSE LET ue == Listed(ue_list_, "ue_id", ue_id)
                 IN  base_UE(ue_id, ue.ap, ue.location, ue.neighboring_aps,
                             ue.signal_power, APPS_ID[ue.app], ue.sla)]

\* populate_ap_dict and populate_ue_dict
populate_ap_dict(aps, response) ==
    LET ap_list_ == execute_client_call(response)
    IN  [aps |-> IF ap_list_.raised # "None" THEN aps
                 ELSE build_ap_dict(aps, ap_list_.returned),
         result |-> IF ap_list_.raised # "None" THEN ap_list_ ELSE Returned(None),
         requests |-> <<"get_ap_list">>]

populate_ue_dict(ues, response) ==
    LET ue_list_ == execute_client_call(response)
    IN  [ues |-> IF ue_list_.raised # "None" THEN ues
                 ELSE build_ue_dict(ues, ue_list_.returned),
         result |-> IF ue_list_.raised # "None" THEN ue_list_ ELSE Returned(None),
         requests |-> <<"get_ue_list">>]

\* not self._ap_dict, not self._ue_dict
Empty(cache) == DOMAIN cache = {}

\* the property ap_dict: the cache, populated first if it is empty
ap_dict_property(aps, response) ==
    IF Empty(aps) THEN populate_ap_dict(aps, response)
    ELSE [aps |-> aps, result |-> Returned(None), requests |-> <<>>]

\* validate_ap of base.py: self.ap_dict[ap_id]
env_validate_ap(aps, ap_id, response) ==
    LET read == ap_dict_property(aps, response)
    IN  [read EXCEPT !.result =
            IF read.result.raised # "None" THEN read.result
            ELSE IF ap_id \notin DOMAIN read.aps THEN Raised("KeyError")
            ELSE Returned(ap_id)]

\* round(a / b, 1) of Python in tenths, for 0 <= a <= b and b > 0. a / b is
\* the double nearest the quotient and round gives the tenth nearest that
\* double. A quotient of q tenths and a half is an odd number of twentieths:
\* its double lies below it for 3, 7, 17 and 19 twentieths and above it for
\* 1, 9, 11 and 13, while 5 and 15 twentieths are doubles and go to the even
\* tenth. halves[q + 1] is the result.
round_tenths(a, b) ==
    LET q == (10 * a) \div b
        r == (10 * a) % b
        halves == <<1, 1, 2, 3, 5, 6, 7, 8, 8, 9>>
    IN  IF 2 * r < b THEN q
        ELSE IF 2 * r > b THEN q + 1
        ELSE halves[q + 1]

\* get_avg_app_sla that rounds the average up to the next tenth
get_avg_app_sla_rounds_up(n_app_ues, ues_meeting_sla) ==
    IF n_app_ues # 0 /\ ues_meeting_sla # 0
    THEN (10 * ues_meeting_sla + n_app_ues - 1) \div n_app_ues
    ELSE 0

\* get_avg_app_sla that cuts the average off after the first decimal place
get_avg_app_sla_truncates(n_app_ues, ues_meeting_sla) ==
    IF n_app_ues # 0 /\ ues_meeting_sla # 0
    THEN (10 * ues_meeting_sla) \div n_app_ues
    ELSE 0

\* round(meeting / total, 1) in tenths, 0.0 if either is 0
get_avg_app_sla(n_app_ues, ues_meeting_sla) ==
    IF n_app_ues # 0 /\ ues_meeting_sla # 0
    THEN round_tenths(ues_meeting_sla, n_app_ues)
    ELSE 0

\* get_ap_stats for an AP of the cache: n_ues_dict and avg_sla_dict
get_ap_stats(ap) ==
    [n_ues_dict |-> [app \in DOMAIN APPS_ID |-> Cardinality(ap.n_ues[app])],
     avg_sla_dict |-> [app \in DOMAIN APPS_ID |->
                          get_avg_app_sla(Cardinality(ap.n_ues[app]),
                                          ap.ues_meeting_sla[app])]]

UE_AP_STATE(ue, stats) ==
    [app |-> ue.app,
     sig_power |-> ue.signal_power,
     video_ues |-> stats.n_ues_dict["video"],
     web_ues |-> stats.n_ues_dict["web"],
     avg_video_sla |-> stats.avg_sla_dict["video"],
     avg_web_sla |-> stats.avg_sla_dict["web"]]

NETWORK_STATE(ue, stats) ==
    [ue_sla |-> ue.sla,
     app |-> ue.app,
     sig_power |-> ue.signal_power,
     video_ues |-> stats.n_ues_dict["video"],
     web_ues |-> stats.n_ues_dict["web"],
     avg_video_sla |-> stats.avg_sla_dict["video"],
     avg_web_sla |-> stats.avg_sla_dict["web"]]

\* get_ue_ap_state(ue, ap_id) and get_network_state(ue, ap_id), ue a UE object
get_ue_ap_state(aps, ue, ap_id, response) ==
    LET ap == env_validate_ap(aps, ap_id, response)
    IN  [ap EXCEPT !.result =
            IF ap.result.raised # "None" THEN ap.result
            ELSE Returned(UE_AP_STATE(ue, get_ap_stats(ap.aps[ap_id])))]

get_network_state(aps, ue, ap_id, response) ==
    LET ap == env_validate_ap(aps, ap_id, response)
    IN  [ap EXCEPT !.result =
            IF ap.result.raised # "None" THEN ap.result
            ELSE Returned(NETWORK_STATE(ue, get_ap_stats(ap.aps[ap_id])))]

\* get_updated_ue: the cached UE takes ap, location, neighboring_aps and sla
\* of ue_info_ (validate_ue finds it, or raises KeyError)
get_updated_ue(ues, ue_info_) ==
    IF ue_info_.ue_id \notin DOMAIN ues
    THEN [ues |-> ues, result |-> Raised("KeyError")]
    ELSE [ues |-> [ues EXCEPT ![ue_info_.ue_id] =
                      [@ EXCEPT !.ap = ue_info_.ap,
                                !.location = ue_info_.location,
                                !.neighboring_aps = ue_info_.neighboring_aps,
                                !.sla = ue_info_.sla]],
          result |-> Returned(ue_info_.ue_id)]

\* get_updated_ap: the cached AP takes location, n_ues and ues_meeting_sla
get_updated_ap(aps, ap_info_) ==
    IF ap_info_.ap_id \notin DOMAIN aps
    THEN [aps |-> aps, result |-> Raised("KeyError")]
    ELSE [aps |-> [aps EXCEPT ![ap_info_.ap_id] =
                      [@ EXCEPT !.location = ap_info_.location,
                                !.n_ues = ap_info_.n_ues,
                                !.ues_meeting_sla = ap_info_.ues_meeting_sla]],
          result |-> Returned(ap_info_.ap_id)]

\* perform_handoff of base.py that computes the state anew whatever the answer
env_perform_handoff_recomputes(aps, ues, ue_id, ap_id, old_state, response) ==
    LET handoff_result == execute_client_call(response)
        state == get_network_state(aps, ues[ue_id], ap_id, ExternalServerError)
    IN  [aps |-> aps, ues |-> ues,
         result |-> IF handoff_result.raised # "None" THEN handoff_result
                    ELSE state.result,
         requests |-> <<"perform_handoff">>]

\* perform_handoff of base.py; the caches are not empty when it is called (ue
\* and old_state came from them), so validate_ue and validate_ap ask nothing
env_perform_handoff(aps, ues, ue_id, ap_id, old_state, response) ==
    LET handoff_result == execute_client_call(response)
        ue == get_updated_ue(ues, handoff_result.returned.UE)
        old_ap == get_updated_ap(aps, handoff_result.returned.OLD_AP)
        new_ap == get_updated_ap(old_ap.aps, handoff_result.returned.NEW_AP)
        state == get_network_state(new_ap.aps, ue.ues[ue.result.returned],
                                   ap_id, ExternalServerError)
        done == IF handoff_result.raised # "None"
                THEN [aps |-> aps, ues |-> ues, result |-> handoff_result]
                ELSE IF ~handoff_result.returned.DONE
                THEN [aps |-> aps, ues |-> ues, result |-> Returned(old_state)]
                ELSE IF ue.result.raised # "None"
                THEN [aps |-> aps, ues |-> ues, result |-> ue.result]
                ELSE IF old_ap.result.raised # "None"
                THEN [aps |-> aps, ues |-> ue.ues, result |-> old_ap.result]
                ELSE IF new_ap.result.raised # "None"
                THEN [aps |-> old_ap.aps, ues |-> ue.ues, result |-> new_ap.result]
                ELSE [aps |-> new_ap.aps, ues |-> ue.ues, result |-> state.result]
    IN  [aps |-> done.aps, ues |-> done.ues, result |-> done.result,
         requests |-> <<"perform_handoff">>]

\* the AP-based sub-term for one class: unchanged and not perfect, unchanged
\* and perfect, improved, worsened
ap_sub_term(old_avg, new_avg, imperfect, perfect, improved, worsened) ==
    IF old_avg # 10 /\ old_avg = new_avg THEN imperfect
    ELSE IF old_avg = 10 /\ old_avg = new_avg THEN perfect
    ELSE IF old_avg < new_avg THEN improved
    ELSE IF old_avg > new_avg THEN worsened
    ELSE 0

reward_based_on_ap_state(action, old_state, new_state) ==
    IF action = 1
    THEN ap_sub_term(old_state.avg_video_sla, new_state.avg_video_sla,
                     -100, -50, 100, -100)
         + ap_sub_term(old_state.avg_web_sla, new_state.avg_web_sla,
                       -50, -25, 50, -50)
    ELSE (IF old_state.avg_video_sla = 10 THEN 100 ELSE 0)
         + (IF old_state.avg_web_sla = 10 THEN 50 ELSE 0)

\* reward_based_on_ue_state that rewards a handoff of a UE that stays without
\* its SLA with 2 instead of -2
reward_based_on_ue_state_unsigned(action, old_sla, new_sla) ==
    IF action = 1
    THEN IF old_sla = 0 /\ new_sla = 0 THEN Returned(200)
         ELSE IF old_sla = 0 /\ new_sla # 0 THEN Returned(300)
         ELSE IF old_sla # 0 /\ new_sla = 0 THEN Returned(-400)
         ELSE Returned(-100)
    ELSE IF old_sla = 0 /\ new_sla = 0 THEN Returned(-100)
         ELSE IF old_sla # 0 /\ new_sla # 0 THEN Returned(100)
         ELSE Raised("UnboundLocalError")

\* reward_based_on_ue_state with the rewards of a gained and of a lost SLA
\* taken for one another
reward_based_on_ue_state_swapped(action, old_sla, new_sla) ==
    IF action = 1
    THEN IF old_sla = 0 /\ new_sla = 0 THEN Returned(-200)
         ELSE IF old_sla = 0 /\ new_sla # 0 THEN Returned(-400)
         ELSE IF old_sla # 0 /\ new_sla = 0 THEN Returned(300)
         ELSE Returned(-100)
    ELSE IF old_sla = 0 /\ new_sla = 0 THEN Returned(-100)
         ELSE IF old_sla # 0 /\ new_sla # 0 THEN Returned(100)
         ELSE Raised("UnboundLocalError")

\* for "Stay" with one SLA met and the other not, no branch assigns reward
\* and "return reward" raises UnboundLocalError
reward_based_on_ue_state(action, old_sla, new_sla) ==
    IF action = 1
    THEN IF old_sla = 0 /\ new_sla = 0 THEN Returned(-200)
         ELSE IF old_sla = 0 /\ new_sla # 0 THEN Returned(300)
         ELSE IF old_sla # 0 /\ new_sla = 0 THEN Returned(-400)
         ELSE Returned(-100)
    ELSE IF old_sla = 0 /\ new_sla = 0 THEN Returned(-100)
         ELSE IF old_sla # 0 /\ new_sla # 0 THEN Returned(100)
         ELSE Raised("UnboundLocalError")

\* get_reward that asks the network for the first UE's SLA instead of reading
\* it from the UE it was given
get_reward_asks_network(action, old_state, new_state, ue, ue_old_sla) ==
    Then(reward_based_on_ue_state(action, ue_old_sla, ue_dict[1][1].sla),
         LAMBDA reward :
             Returned(reward
                      + reward_based_on_ap_state(action, old_state, new_state)))

get_reward(action, old_state, new_state, ue, ue_old_sla) ==
    Then(reward_based_on_ue_state(action, ue_old_sla, ue.sla),
         LAMBDA reward :
             Returned(reward
                      + reward_based_on_ap_state(action, old_state, new_state)))

\* _step that requests the handoff without looking at the UE's AP
_step_always_requests(aps, ues, state, action, ue_id, ap_id, response) ==
    LET ue_sla_before_handoff == ues[ue_id].sla
        moved == env_perform_handoff(aps, ues, ue_id, ap_id, state, response)
        reward == get_reward(action, state, moved.result.returned,
                             moved.ues[ue_id], ue_sla_before_handoff)
    IN  [moved EXCEPT !.result =
            IF moved.result.raised # "None" THEN moved.result
            ELSE Then(reward, LAMBDA r :
                     Returned([next_state |-> moved.result.returned,
                               reward |-> r]))]

\* _step that takes action STAY to mean that no handoff is to be requested
_step_stay_requests_nothing(aps, ues, state, action, ue_id, ap_id, response) ==
    LET ue_sla_before_handoff == ues[ue_id].sla
        moved == IF action = HANDOFF /\ ues[ue_id].ap # ap_id
                 THEN env_perform_handoff(aps, ues, ue_id, ap_id, state, response)
                 ELSE [aps |-> aps, ues |-> ues, result |-> Returned(state),
                       requests |-> <<>>]
        reward == get_reward(action, state, moved.result.returned,
                             moved.ues[ue_id], ue_sla_before_handoff)
    IN  [moved EXCEPT !.result =
            IF moved.result.raised # "None" THEN moved.result
            ELSE Then(reward, LAMBDA r :
                     Returned([next_state |-> moved.result.returned,
                               reward |-> r]))]

\* _step(state, action, ue, ap_id), ue being the cached UE ues[ue_id]
_step(aps, ues, state, action, ue_id, ap_id, response) ==
    LET ue_sla_before_handoff == ues[ue_id].sla
        moved == IF ues[ue_id].ap # ap_id
                 THEN env_perform_handoff(aps, ues, ue_id, ap_id, state, response)
                 ELSE [aps |-> aps, ues |-> ues, result |-> Returned(state),
                       requests |-> <<>>]
        reward == get_reward(action, state, moved.result.returned,
                             moved.ues[ue_id], ue_sla_before_handoff)
    IN  [moved EXCEPT !.result =
            IF moved.result.raised # "None" THEN moved.result
            ELSE Then(reward, LAMBDA r :
                     Returned([next_state |-> moved.result.returned,
                               reward |-> r]))]

\* _reset: both caches are populated, then tested
_reset(aps, ues, ap_response, ue_response) ==
    LET fetched_aps == populate_ap_dict(aps, ap_response)
        fetched_ues == populate_ue_dict(ues, ue_response)
    IN  IF fetched_aps.result.raised # "None"
        THEN [aps |-> aps, ues |-> ues, result |-> fetched_aps.result,
              requests |-> fetched_aps.requests]
        ELSE IF fetched_ues.result.raised # "None"
        THEN [aps |-> fetched_aps.aps, ues |-> ues,
              result |-> fetched_ues.result,
              requests |-> fetched_aps.requests \o fetched_ues.requests]
        ELSE [aps |-> fetched_aps.aps, ues |-> fetched_ues.ues,
              result |-> IF Empty(fetched_ues.ues) \/ Empty(fetched_aps.aps)
                         THEN ExternalServerError
                         ELSE Returned(None),
              requests |-> fetched_aps.requests \o fetched_ues.requests]

\* the ids a caller passes: every id in use, and 0, which no AP and no UE has
PerformHandoff ==
    /\ \E ue_id \in 0 .. num_ues, ap_id \in 0 .. num_aps :
           perform_handoff(ue_id, ap_id)
    /\ query' = None
    /\ UNCHANGED env_vars
    /\ UNCHANGED handoffs

ResetNetwork ==
    /\ reset_network
    /\ query' = None
    /\ UNCHANGED env_vars
    /\ UNCHANGED handoffs

Next == PerformHandoff \/ ResetNetwork

Spec == Init /\ [][Next]_vars

(***************************************************************************)
(* The loaded network: CrowdUes UEs, of which UE 2 .. CrowdUes - 1 are     *)
(* video UEs next to AP 1 (the hot spot get_center_grid creates) that stay *)
(* where they are, while the first and the last UE draw freely and are     *)
(* handed off.                                                             *)
(***************************************************************************)
CrowdLocations == {<<1, 1>>, <<6, 6>>}

CrowdDraw == [app |-> "video", location |-> <<1, 1>>, closest |-> <<2, 2>>]

InitCrowd ==
    /\ \E first, last \in {d \in UeDraws(CrowdLocations) : ValidDraw(d)} :
           Constructed(CrowdUes,
                       [ue_id \in 1 .. CrowdUes |->
                           IF ue_id = 1 THEN first
                           ELSE IF ue_id = CrowdUes THEN last
                           ELSE CrowdDraw])
    /\ EnvConstructed

CrowdHandoff ==
    /\ \E ue_id \in {0, 1, num_ues}, ap_id \in 0 .. num_aps :
           perform_handoff(ue_id, ap_id)
    /\ query' = None
    /\ UNCHANGED env_vars
    /\ UNCHANGED handoffs

NextCrowd == CrowdHandoff \/ ResetNetwork

SpecCrowd == InitCrowd /\ [][NextCrowd]_vars

(***************************************************************************)
(* The environment on top of the network: EnvUes UEs next to AP 1. The     *)
(* environment resets, asks for states and steps the first UE; the network *)
(* also serves accessor calls and handoff requests that do not come from   *)
(* the environment.                                                        *)
(***************************************************************************)
network_vars == <<num_ues, location_to_ap_lookup, ap_dict, ue_dict, result,
                  prev_ap_dict, prev_ue_dict>>

EnvLocations == {<<1, 1>>}

InitEnv ==
    /\ \E draws \in [1 .. EnvUes -> {d \in UeDraws(EnvLocations) : ValidDraw(d)}] :
           Constructed(EnvUes, draws)
    /\ EnvConstructed

\* the UE the environment steps and other clients hand off, and the APs it
\* is handed to: the one next to it and the one farthest from it
EnvUe == 1
EnvApIds == {1, num_aps}

\* the environment's call ended as done says, having sent done.requests
Answered(call, done) ==
    /\ env_ap_dict' = done.aps
    /\ env_ue_dict' = done.ues
    /\ env_result' = done.result
    /\ env_call' = Some(call)
    /\ query' = None
    /\ UNCHANGED handoffs

EnvReset ==
    \E ap_response \in client_get_ap_list, ue_response \in client_get_ue_list :
        LET done == _reset(env_ap_dict, env_ue_dict, ap_response, ue_response)
        IN  /\ Answered([call |-> "_reset",
                         ap_list |-> ap_response,
                         ue_list |-> IF Len(done.requests) = 2
                                     THEN Some(ue_response) ELSE None,
                         requests |-> done.requests], done)
            /\ UNCHANGED network_vars

\* get_network_state(ue, ap_id) or get_ue_ap_state(ue, ap_id) for a cached UE
EnvState(call, ue_id, ap_id) ==
    /\ ue_id \in DOMAIN env_ue_dict
    /\ \E response \in IF Empty(env_ap_dict) THEN client_get_ap_list
                       ELSE {ExternalServerError} :
           LET ue == env_ue_dict[ue_id]
               done == IF call = "get_network_state"
                       THEN get_network_state(env_ap_dict, ue, ap_id, response)
                       ELSE get_ue_ap_state(env_ap_dict, ue, ap_id, response)
           IN  Answered([call |-> call, ue |-> ue_id, ap_id |-> ap_id,
                         answer |-> IF done.requests = <<>> THEN None
                                    ELSE Some(response),
                         requests |-> done.requests],
                        [aps |-> done.aps, ues |-> env_ue_dict,
                         result |-> done.result])
    /\ UNCHANGED network_vars

EnvGetNetworkState ==
    \E ap_id \in {0} \cup EnvApIds :
        EnvState("get_network_state", EnvUe, ap_id)

EnvGetUeApState ==
    \E ap_id \in {0} \cup EnvApIds :
        EnvState("get_ue_ap_state", EnvUe, ap_id)

\* step(state, action, ue, ap_id) with ue the cached UE ue_id and state its
\* NETWORK_STATE on its AP. A request the step sends fails, or reaches the
\* network, which performs it and answers. The call is recorded with the
\* requests it sent and the client's answer to them.
EnvStepCall(action, ue_id, ap_id) ==
    /\ ue_id \in DOMAIN env_ue_dict
    /\ env_ue_dict[ue_id].ap \in DOMAIN env_ap_dict
    /\ LET ue == env_ue_dict[ue_id]
           state == NETWORK_STATE(ue, get_ap_stats(env_ap_dict[ue.ap]))
           failed == _step(env_ap_dict, env_ue_dict, state, action, ue_id,
                           ap_id, ExternalServerError)
           call == [call |-> "_step", state |-> state, action |-> action,
                    ue |-> ue_id, ap_id |-> ap_id, sla_before |-> ue.sla,
                    answer |-> IF failed.requests = <<>> THEN None
                               ELSE Some(ExternalServerError),
                    requests |-> failed.requests]
       IN  \/ /\ Answered(call, failed)
              /\ UNCHANGED network_vars
           \/ /\ failed.requests # <<>>
              /\ perform_handoff(ue_id, ap_id)
              /\ LET answer == client_perform_handoff(result', ap_dict', ue_dict')
                 IN  Answered([call EXCEPT !.answer = Some(answer)],
                              _step(env_ap_dict, env_ue_dict, state, action,
                                    ue_id, ap_id, answer))

EnvStep ==
    \E action \in {STAY, HANDOFF}, ap_id \in EnvApIds :
        EnvStepCall(action, EnvUe, ap_id)

\* a handoff another client of the network asks for
OtherHandoff ==
    /\ \E ap_id \in EnvApIds : perform_handoff(EnvUe, ap_id)
    /\ query' = None
    /\ UNCHANGED env_vars
    /\ UNCHANGED handoffs

NextEnv ==
    \/ EnvReset
    \/ EnvGetNetworkState
    \/ EnvGetUeApState
    \/ EnvStep
    \/ OtherHandoff

SpecEnv == InitEnv /\ [][NextEnv]_vars

\* the same network, asked for what it holds: the accessors of the network
\* and the calls that change what they read
QueryHandoff ==
    /\ \E ue_id \in {0, EnvUe}, ap_id \in {0} \cup EnvApIds :
           perform_handoff(ue_id, ap_id)
    /\ query' = None
    /\ UNCHANGED env_vars
    /\ UNCHANGED handoffs

NextQuery ==
    \/ Accessor
    \/ QueryHandoff
    \/ ResetNetwork

SpecQuery == InitEnv /\ [][NextQuery]_vars

(***************************************************************************)
(* Calls of functions that read nothing but their arguments, each made on  *)
(* a network as constructed: the call and its outcome are recorded in      *)
(* query.                                                                  *)
(***************************************************************************)
InitCalls ==
    /\ Constructed(EnvUes, [ue_id \in 1 .. EnvUes |-> CrowdDraw])
    /\ EnvConstructed

Called(call, args, outcome) ==
    /\ query' = Some([call |-> call, args |-> args, result |-> outcome])
    /\ UNCHANGED network_vars
    /\ UNCHANGED env_vars
    /\ UNCHANGED handoffs

\* round(x, 1) of a ratio in [0, 1], in tenths
Tenths == 0 .. 10

\* a NETWORK_STATE with the given SLA and averages
StateWith(sla, avg_video, avg_web) ==
    [ue_sla |-> sla, app |-> APPS_ID["video"], sig_power |-> Some(0),
     video_ues |-> 1, web_ues |-> 1,
     avg_video_sla |-> avg_video, avg_web_sla |-> avg_web]

\* get_reward(action, old_state, new_state, ue, ue_old_sla)
RewardCall ==
    /\ query = None
    /\ \E action \in {STAY, HANDOFF}, ue_old_sla, ue_new_sla \in {0, 1},
          old_video, new_video, old_web, new_web \in Tenths :
           LET old_state == StateWith(ue_old_sla, old_video, old_web)
               new_state == StateWith(ue_new_sla, new_video, new_web)
               ue == [sla |-> ue_new_sla]
           IN  Called("get_reward",
                      [action |-> action, old_state |-> old_state,
                       new_state |-> new_state, ue |-> ue,
                       ue_old_sla |-> ue_old_sla],
                      get_reward(action, old_state, new_state, ue, ue_old_sla))

\* between calls the network hands the first UE off
CallsHandoff ==
    /\ query = None
    /\ \E ap_id \in EnvApIds : perform_handoff(EnvUe, ap_id)
    /\ query' = None
    /\ UNCHANGED env_vars
    /\ UNCHANGED handoffs

\* base.py: CLIENTS, the class registered for each backend type
CLIENTS == [Dev |-> "CellularDevClient", Prod |-> "CellularProdClient"]

\* dev_client.CellularDevClient(*args): the simulated backend's client
CellularDevClient(args) == Returned([class |-> "CellularDevClient"])

\* prod_client.CellularProdClient(*args): __init__(self) takes no argument
CellularProdClient(args) ==
    IF Len(args) = 0 THEN Returned([class |-> "CellularProdClient"])
    ELSE Raised("TypeError")

\* initialize_client(env_config): what it returns or raises, and the classes
\* it called to construct a client
initialize_client(env_config) ==
    LET env_type == env_config.TYPE
    IN  IF env_type \notin DOMAIN CLIENTS
        THEN [result |-> Raised("ClientNotImplemented"), constructed |-> <<>>]
        ELSE [result |-> IF CLIENTS[env_type] = "CellularDevClient"
                         THEN CellularDevClient(<<env_config>>)
                         ELSE CellularProdClient(<<env_config>>),
              constructed |-> <<CLIENTS[env_type]>>]

\* the values of env_config['TYPE'] tried: the registered ones and two others
EnvTypes == {"Dev", "Prod", "Test", "dev"}

InitializeClient ==
    /\ query = None
    /\ \E env_type \in EnvTypes :
           LET env_config == [TYPE |-> env_type]
           IN  Called("initialize_client", [env_config |-> env_config],
                      initialize_client(env_config))

\* interface.py: SUPPORTED_ALGORITHMS and SUPPORTED_ENVIRONMENTS
SUPPORTED_ALGORITHMS == {"Qlearning"}
SUPPORTED_ENVIRONMENTS == {"Cellular"}

\* Rainman2.run_experiment(env_name, algorithm_name, agent_name) with
\* environment_config['TYPE'] = env_type: what it returns or raises.
\* built is the outcome of constructing the algorithm's controller and
\* executed that of alg_instance.execute(), whose exception is logged and
\* dropped, the method then returning None.
run_experiment(env_name, algorithm_name, agent_name, env_type, built, executed) ==
    LET env_client == IF env_name = "Cellular"
                      THEN initialize_client([TYPE |-> env_type]).result
                      ELSE Returned(None)
    IN  IF env_name \notin SUPPORTED_ENVIRONMENTS
        THEN Raised("EnvironmentNotImplemented")
        ELSE IF env_client.raised # "None" THEN env_client
        ELSE IF algorithm_name \notin SUPPORTED_ALGORITHMS
        THEN Raised("AlgorithmNotImplemented")
        ELSE IF built.raised # "None" THEN built
        ELSE IF executed.raised # "None" THEN Returned(None)
        ELSE executed

\* try: RAINMAN2.run_experiment(...) / except Exception: logger.exception:
\* the call the command made, and what the command returns or raises
Experiment(env_name, algorithm_name, agent_name, outcome) ==
    [calls |-> << <<env_name, algorithm_name, agent_name>> >>,
     result |-> Returned(None)]

\* qlearning_nn_cmd whose exception handler raises the error again
qlearning_nn_cmd_reraises(outcome) ==
    [calls |-> << <<"Cellular", "Qlearning", "NN">> >>,
     result |-> IF outcome.raised # "None" THEN outcome ELSE Returned(None)]

\* the three commands of the group Cellular, run_experiment ending as outcome
qlearning_naive_cmd(outcome) ==
    Experiment("Cellular", "Qlearning", "Naive", outcome)

qlearning_linear_regression_cmd(outcome) ==
    Experiment("Cellular", "Qlearning", "LinearRegression", outcome)

qlearning_nn_cmd(outcome) ==
    Experiment("Cellular", "Qlearning", "NN", outcome)

Commands == {"qlearning_naive", "qlearning_linear_regression", "qlearning_nn"}

\* cli(['Cellular', '--env_type', env_type, command]) as click runs it: the
\* calls of run_experiment it made and its exit code, 0 if the command
\* returned and 1 if it raised
cli(command, env_type, built, executed) ==
    LET agent_name == CASE command = "qlearning_naive" -> "Naive"
                        [] command = "qlearning_linear_regression" -> "LinearRegression"
                        [] OTHER -> "NN"
        outcome == run_experiment("Cellular", "Qlearning", agent_name,
                                  env_type, built, executed)
        done == CASE command = "qlearning_naive" -> qlearning_naive_cmd(outcome)
                  [] command = "qlearning_linear_regression" ->
                         qlearning_linear_regression_cmd(outcome)
                  [] OTHER -> qlearning_nn_cmd(outcome)
    IN  [calls |-> done.calls, experiment |-> outcome,
         exit_code |-> IF done.result.raised = "None" THEN 0 ELSE 1]

\* a subcommand is run, with either backend type, the controller built or
\* not, and the experiment ending well or not
InvokeCli ==
    /\ query = None
    /\ \E command \in Commands, env_type \in DOMAIN CLIENTS,
          built \in {Returned("QController"), Raised("KeyError")},
          executed \in {Returned("output"), Raised("ValueError")} :
           Called("cli", [command |-> command, env_type |-> env_type],
                  cli(command, env_type, built, executed))

\* int(math.sqrt(n))
int_sqrt(n) == CHOOSE k \in 0 .. n : k * k <= n /\ n < (k + 1) * (k + 1)

\* [(1 + (2 * i)) * self.scale for i in range(self.x_units)]
axis_locations(units, scale_) ==
    [i \in 1 .. units |-> (1 + (2 * (i - 1))) * scale_]

\* location = (yloc, xloc)
placed_location_transposed(axis, x, y) == <<axis[y], axis[x]>>

\* location = (xloc, yloc), xloc = axis[x] and yloc = axis[y]
placed_location(axis, x, y) == <<axis[x], axis[y]>>

\* the loops of _place_aps from the iteration xloc = axis[x], yloc = axis[y]
\* on, placed holding ap_dict, the lookup and ap_id as they are then.
\* ap_dict[ap_id] = AP(...) appends, ap_id being one more than the ids in use.
RECURSIVE place_from(_, _, _, _)
place_from(axis, x, y, placed) ==
    IF x > Len(axis) THEN placed
    ELSE IF y > Len(axis) THEN place_from(axis, x + 1, 1, placed)
    ELSE LET location == placed_location(axis, x, y)
             ap_id == placed.ap_id
         IN  place_from(axis, x, y + 1,
                 [lookup |-> [l \in DOMAIN placed.lookup \cup {location} |->
                                 IF l = location THEN ap_id
                                 ELSE placed.lookup[l]],
                  ap_dict |-> Append(placed.ap_dict, AP(ap_id, location)),
                  ap_id |-> ap_id + 1])

\* StaticNetwork.__init__ up to self._ap_dict = self._place_aps(), for a
\* network of n APs: x_units, aps_per_axis, the lookup and the AP dictionary
place_aps(n, scale_) ==
    LET units == int_sqrt(n)
        axis == axis_locations(units, scale_)
        placed == place_from(axis, 1, 1,
                             [lookup |-> <<>>, ap_dict |-> <<>>, ap_id |-> 1])
    IN  [x_units |-> units, aps_per_axis |-> axis,
         location_to_ap_lookup |-> placed.lookup, ap_dict |-> placed.ap_dict]

\* the scales of the networks placed
Scales == {1, 2, 3}

\* a network of 1 .. MaxAps APs is constructed
PlaceAps ==
    /\ query = None
    /\ \E n \in 1 .. MaxAps, scale_ \in Scales :
           Called("_place_aps", [num_aps |-> n, scale |-> scale_],
                  place_aps(n, scale_))

\* _instantiate_ues, one UE: an application and a location are drawn, and
\* the APs around the location are looked up
LocateUe ==
    /\ query = None
    /\ \E app \in get_ue_app :
           \E location \in get_ue_location(app, scale, aps_per_axis) :
               Called("get_neighboring_aps",
                      [app |-> app, ue_location |-> location],
                      get_neighboring_aps(location, aps_per_axis, explore_radius))

\* the strictly increasing lists of 2 .. 4 coordinates out of 1 .. MaxCoord,
\* and the list of utils.py's main
CoordinateLists ==
    {num_list \in UNION {[1 .. n -> 1 .. MaxCoord] : n \in 2 .. 4} :
        \A i \in 1 .. (Len(num_list) - 1) : num_list[i] < num_list[i + 1]}
        \cup {<<100, 300, 500, 700>>}

\* get_interval is called with a value inside, on or outside such a list
IntervalCall ==
    /\ query = None
    /\ \E num_list \in CoordinateLists :
           \E value \in (0 .. (MaxCoord + 1)) \cup {345} :
               Called("get_interval", [value |-> value, num_list |-> num_list],
                      get_interval(value, num_list))

\* get_neighboring_aps(ue_location, aps, radius) as a call: on an axis of one
\* AP, get_interval reads num_list[1] for a coordinate equal to the AP's, and
\* get_valid_neighbors reads aps_per_axis[1]; both raise IndexError
neighboring_aps_call(ue_location, aps, radius) ==
    IF Len(aps) = 1 /\ (aps[1] \in {ue_location[1], ue_location[2]} \/ radius > 1)
    THEN Raised("IndexError")
    ELSE Returned(get_neighboring_aps(ue_location, aps, radius))

\* the neighbours of a location a web UE can be drawn at are searched, on a
\* network of 1 .. MaxAps APs, with a radius of 1 .. MaxRadius
NeighborSearch ==
    /\ query = None
    /\ \E n \in 1 .. MaxAps, radius \in 1 .. MaxRadius :
           LET aps == axis_locations(int_sqrt(n), scale)
           IN  \E ue_location \in get_ue_location("web", scale, aps) :
                   Called("neighboring_aps_call",
                          [ue_location |-> ue_location, num_aps |-> n,
                           radius |-> radius],
                          neighboring_aps_call(ue_location, aps, radius))

\* get_ue_ap(ue_location, aps, radius): the outcomes it can have, one for
\* each AP location get_closest_ap_location can return
get_ue_ap(ue_location, aps, radius) ==
    LET found == neighboring_aps_call(ue_location, aps, radius)
    IN  IF found.raised # "None" THEN {found}
        ELSE {Returned([closest |-> closest,
                        within_grid |-> found.returned.within_grid,
                        neighboring_aps |-> found.returned.within_grid
                                                \cup found.returned.rest]) :
                 closest \in get_closest_ap_location(found.returned.within_grid,
                                                     ue_location)}

\* _instantiate_ues, one UE of a network of 1 .. MaxAps APs: an application
\* and a location are drawn, get_ue_ap finds the closest AP, and the lookup
\* gives current_ap_id
AttachUe ==
    /\ query = None
    /\ \E n \in 1 .. MaxAps, app \in get_ue_app :
           LET placed == place_aps(n, scale)
           IN  \E ue_location \in get_ue_location(app, scale, placed.aps_per_axis) :
                   \E found \in get_ue_ap(ue_location, placed.aps_per_axis,
                                           explore_radius) :
                       Called("get_ue_ap",
                              [num_aps |-> n, app |-> app,
                               ue_location |-> ue_location],
                              IF found.raised # "None" THEN found
                              ELSE Returned(
                                  [within_grid |-> found.returned.within_grid,
                                   current_ap_id |->
                                       placed.location_to_ap_lookup[
                                           found.returned.closest]]))

\* get_avg_app_sla is called for a class of up to max_connections UEs, any
\* number of which meet their SLA
AvgSlaCall ==
    /\ query = None
    /\ \E n_app_ues \in 0 .. max_connections :
           \E ues_meeting_sla \in 0 .. n_app_ues :
               Called("get_avg_app_sla",
                      [n_app_ues |-> n_app_ues,
                       ues_meeting_sla |-> ues_meeting_sla],
                      get_avg_app_sla(n_app_ues, ues_meeting_sla))

NextCalls ==
    \/ RewardCall
    \/ CallsHandoff
    \/ InitializeClient
    \/ InvokeCli
    \/ PlaceAps
    \/ LocateUe
    \/ IntervalCall
    \/ NeighborSearch
    \/ AttachUe
    \/ AvgSlaCall

SpecCalls == InitCalls /\ [][NextCalls]_vars

(***************************************************************************)
(* A caller that keeps what the network returned. AP.to_dict and           *)
(* UE.to_dict return self.__dict__, the dictionary in which the object     *)
(* keeps its attributes, and not a copy of it: ap_info, ue_info, the lists *)
(* and a handoff result hand these dictionaries out. query records the     *)
(* call and the contents the value had when it was returned.               *)
(***************************************************************************)
\* what the holder of the value returned to call q reads in it now: the
\* attributes the objects have now
to_dict(q) ==
    LET kept == q.result.returned
    IN  IF q.call = "ap_info" THEN ap_dict[1][q.id[1]]
        ELSE IF q.call = "ue_info" THEN ue_dict[1][q.id[1]]
        ELSE IF q.call = "ap_list" THEN ap_dict[1]
        ELSE IF q.call = "ue_list" THEN ue_dict[1]
        ELSE [UE |-> ue_dict[1][kept.UE.ue_id],
              OLD_AP |-> ap_dict[1][kept.OLD_AP.ap_id],
              NEW_AP |-> ap_dict[1][kept.NEW_AP.ap_id]]

\* the caller asks for an AP, a UE or a list and keeps the answer
HoldQuery ==
    /\ query = None
    /\ \/ ap_list
       \/ ue_list
       \/ \E ap_id \in EnvApIds : ap_info(ap_id)
       \/ ue_info(EnvUe)
    /\ UNCHANGED <<result, prev_ap_dict, prev_ue_dict>>
    /\ UNCHANGED env_vars
    /\ UNCHANGED handoffs

\* the caller has a UE handed off and keeps the handoff result
HoldHandoff ==
    /\ query = None
    /\ \E ap_id \in EnvApIds : perform_handoff(EnvUe, ap_id)
    /\ result'.raised = "None"
    /\ result'.returned[1].DONE
    /\ LET handoff_result == result'.returned[1]
       IN  query' = Some([call |-> "perform_handoff", id |-> Some(EnvUe),
                          result |-> Returned(
                              [UE |-> ue_dict'[1][handoff_result.UE[1]],
                               OLD_AP |-> ap_dict'[1][handoff_result.OLD_AP[1]],
                               NEW_AP |-> ap_dict'[1][handoff_result.NEW_AP[1]]])])
    /\ UNCHANGED env_vars
    /\ UNCHANGED handoffs

\* a later handoff, of any UE, while the caller holds the value
LaterHandoff ==
    /\ query # None
    /\ \E ue_id \in 1 .. num_ues, ap_id \in EnvApIds : perform_handoff(ue_id, ap_id)
    /\ UNCHANGED query
    /\ UNCHANGED env_vars
    /\ UNCHANGED handoffs

NextHold ==
    \/ HoldQuery
    \/ HoldHandoff
    \/ LaterHandoff

SpecHold == InitEnv /\ [][NextHold]_vars

(***************************************************************************)
(* network.py: perform_handoff served for two requests at once, each       *)
(* advancing through handoff_to_ap one group of statements at a time. A    *)
(* request has its own ue, current_ap and new_ap_id; the AP and UE objects *)
(* these name are shared.                                                  *)
(***************************************************************************)
\* the request is inside handoff_to_ap
Inside(request) == handoffs[request].pc \notin {"idle", "done"}

\* the request moves on to pc, or ends raising; it overlaps another request
\* if it moves while that one is inside handoff_to_ap
Advance(request, pc, raised) ==
    handoffs' = [handoffs EXCEPT
                    ![request].pc = pc,
                    ![request].raised = raised,
                    ![request].overlapped =
                        @ \/ \E other \in Requests \ {request} : Inside(other)]

\* perform_handoff up to the call of handoff_to_ap: ue and current_ap are
\* looked up, and a request for the UE's own AP is aborted
Receive(request) ==
    /\ handoffs[request].pc = "idle"
    /\ \E ue_id \in 1 .. num_ues, ap_id \in EnvApIds :
           LET ue == ue_dict[1][ue_id]
           IN  handoffs' = [handoffs EXCEPT ![request] =
                   [pc |-> IF ue.ap = ap_id THEN "done" ELSE "remove",
                    ue_id |-> ue_id, new_ap_id |-> ap_id,
                    current_ap |-> ue.ap, raised |-> "None",
                    overlapped |-> \E other \in Requests \ {request} :
                                       Inside(other)]]
    /\ UNCHANGED <<ap_dict, ue_dict>>

\* current_ap.n_ues[ue.app].remove(ue.ue_id): KeyError if the id is not there
RemoveStep(request) ==
    LET local == handoffs[request]
        ue == ue_dict[1][local.ue_id]
    IN  /\ local.pc = "remove"
        /\ IF ue.ue_id \in ap_dict[1][local.current_ap].n_ues[ue.app]
           THEN /\ ap_dict' = Some(remove_from_current_ap(
                                       ap_dict[1],
                                       [ue EXCEPT !.ap = local.current_ap]))
                /\ Advance(request, "decrement", "None")
           ELSE /\ Advance(request, "done", "KeyError")
                /\ UNCHANGED ap_dict
        /\ UNCHANGED ue_dict

\* current_ap.ues_meeting_sla[ue.app] -= ue.sla
DecrementStep(request) ==
    LET local == handoffs[request]
        ue == ue_dict[1][local.ue_id]
    IN  /\ local.pc = "decrement"
        /\ ap_dict' = Some(decrement_current_ap_sla(
                               ap_dict[1], [ue EXCEPT !.ap = local.current_ap]))
        /\ Advance(request, "add", "None")
        /\ UNCHANGED ue_dict

\* new_ap = self.validate_ap(new_ap_id); ue.ap = new_ap_id;
\* new_ap.n_ues[ue.app].add(ue.ue_id)
AddStep(request) ==
    LET local == handoffs[request]
        ue == ue_dict[1][local.ue_id]
    IN  /\ local.pc = "add"
        /\ ue_dict' = Some([ue_dict[1] EXCEPT ![local.ue_id].ap = local.new_ap_id])
        /\ ap_dict' = Some(add_to_requested_ap(ap_dict[1], ue, local.new_ap_id))
        /\ Advance(request, "stats", "None")

\* update_neighboring_aps(ue, new_ap), and update_ue_stats(ue, new_ap) but
\* for its counter: the UE's distance, throughput, sla and signal power are
\* computed against new_ap as it is now
StatsStep(request) ==
    LET local == handoffs[request]
        ue == ue_dict[1][local.ue_id]
        with_neighbors == update_neighboring_aps(location_to_ap_lookup, ue,
                                                 ap_dict[1][local.new_ap_id])
        updated == update_ue_stats(ap_dict[1], with_neighbors, local.new_ap_id)
    IN  /\ local.pc = "stats"
        /\ ue_dict' = Some([ue_dict[1] EXCEPT ![local.ue_id] = updated.ue])
        /\ Advance(request, "increment", "None")
        /\ UNCHANGED ap_dict

\* update_ue_stats: ap.ues_meeting_sla[ue.app] += ue.sla, and the request
\* returns its handoff_result
IncrementStep(request) ==
    LET local == handoffs[request]
        ue == ue_dict[1][local.ue_id]
    IN  /\ local.pc = "increment"
        /\ ap_dict' = Some([ap_dict[1] EXCEPT
                               ![local.new_ap_id].ues_meeting_sla[ue.app] =
                                   @ + ue.sla])
        /\ Advance(request, "done", "None")
        /\ UNCHANGED ue_dict

\* the steps leave everything but the two maps and the requests alone
RaceFrame ==
    /\ UNCHANGED <<num_ues, location_to_ap_lookup, result, prev_ap_dict,
                   prev_ue_dict, query>>
    /\ UNCHANGED env_vars

ReceiveRequest == (\E request \in Requests : Receive(request)) /\ RaceFrame
RemoveFromCurrentAp == (\E request \in Requests : RemoveStep(request)) /\ RaceFrame
DecrementCounter == (\E request \in Requests : DecrementStep(request)) /\ RaceFrame
AddToRequestedAp == (\E request \in Requests : AddStep(request)) /\ RaceFrame
RecomputeStats == (\E request \in Requests : StatsStep(request)) /\ RaceFrame
IncrementCounter == (\E request \in Requests : IncrementStep(request)) /\ RaceFrame

NextRace ==
    \/ ReceiveRequest
    \/ RemoveFromCurrentAp
    \/ DecrementCounter
    \/ AddToRequestedAp
    \/ RecomputeStats
    \/ IncrementCounter

SpecRace == InitEnv /\ [][NextRace]_vars

(***************************************************************************)
(* network.py: the neighbour lists. UEs are drawn next to AP 1, outside    *)
(* the APs' hull, and inside the grid cell, where the search finds 4 APs;  *)
(* they are handed to any AP, or to one that does not exist, and asked for *)
(* their neighbours.                                                       *)
(***************************************************************************)
NeighborLocations == {<<1, 1>>, <<3, 4>>}

InitNeighbors ==
    /\ \E draws \in [1 .. NeighborUes ->
                        {d \in UeDraws(NeighborLocations) : ValidDraw(d)}] :
           Constructed(NeighborUes, draws)
    /\ EnvConstructed

NeighborsHandoff ==
    /\ \E ue_id \in 1 .. num_ues, ap_id \in 0 .. num_aps :
           perform_handoff(ue_id, ap_id)
    /\ query' = None
    /\ UNCHANGED env_vars
    /\ UNCHANGED handoffs

AskNeighbors ==
    /\ \E ue_id \in 1 .. num_ues : ue_neighboring_aps(ue_id)
    /\ UNCHANGED <<result, prev_ap_dict, prev_ue_dict>>
    /\ UNCHANGED env_vars
    /\ UNCHANGED handoffs

NextNeighbors ==
    \/ NeighborsHandoff
    \/ AskNeighbors

SpecNeighbors == InitNeighbors /\ [][NextNeighbors]_vars

(***************************************************************************)
(* Properties                                                              *)
(***************************************************************************)
\* both maps exist (they do until reset_network is called)
Built == ap_dict # None /\ ue_dict # None

Aps == ap_dict[1]
Ues == ue_dict[1]

\* r is the result of a handoff that was carried out
IsDone(r) == r.raised = "None" /\ r.returned # None /\ r.returned[1].DONE

\* the (AP, class) pairs whose set lists UE u
Places(aps, u) == {<<a, c>> \in (DOMAIN aps) \X Apps : u \in aps[a].n_ues[c]}

RECURSIVE SumOccupancy(_, _)
SumOccupancy(aps, n) ==
    IF n = 0 THEN 0 ELSE total_ues(aps[n].n_ues) + SumOccupancy(aps, n - 1)

\* C1: after construction and after any sequence of perform_handoff calls,
\* every UE id is listed by at most one AP, under at most one application
\* class, and a UE id listed by AP a under class c is that of a UE whose ap is
\* a.ap_id and whose app is c.
C1_AtMostOnePlace ==
    Built =>
        /\ \A u \in DOMAIN Ues : Cardinality(Places(Aps, u)) <= 1
        /\ \A a \in DOMAIN Aps : \A c \in Apps : \A u \in Aps[a].n_ues[c] :
               /\ u \in DOMAIN Ues
               /\ Ues[u].ap = Aps[a].ap_id
               /\ Aps[a].ap_id = a
               /\ Ues[u].app = c

\* a handoff was carried out and its target AP now lists two UEs
C1_Witness ==
    /\ Built
    /\ IsDone(result)
    /\ total_ues(Aps[result.returned[1].NEW_AP[1]].n_ues) >= 2

\* C2: in every reachable state, also after calls that end in a not-found
\* error, every UE is listed by the AP its ap field names, under its class, and
\* the occupancies of all APs sum to num_ues.
C2_ExactlyOnePlace ==
    Built =>
        /\ \A u \in DOMAIN Ues :
               /\ Ues[u].ap \in DOMAIN Aps
               /\ u \in Aps[Ues[u].ap].n_ues[Ues[u].app]
        /\ SumOccupancy(Aps, Len(Aps)) = num_ues

\* C3: a handoff of UE u from AP A to AP B that is carried out leaves u.ap = B,
\* u out of A's set and in B's set, A's SLA counter lower by u's SLA before the
\* handoff, u's distance, throughput, SLA and signal power computed against B
\* (the throughput from B's occupancy with u counted), and B's SLA counter
\* higher by u's new SLA.
C3_HandoffEffect ==
    [][IsDone(result') =>
          LET r == result'.returned[1]
              u == r.UE[1]
              A == r.OLD_AP[1]
              B == r.NEW_AP[1]
              old == ue_dict[1][u]
              new == ue_dict'[1][u]
              app == old.app
              apA == ap_dict[1][A]
              apB == ap_dict[1][B]
              apA2 == ap_dict'[1][A]
              apB2 == ap_dict'[1][B]
          IN  /\ old.ap = A /\ A # B
              /\ new.ap = B
              /\ u \in apA.n_ues[app] /\ u \notin apA2.n_ues[app]
              /\ u \in apB2.n_ues[app]
              /\ apA2.ues_meeting_sla[app] = apA.ues_meeting_sla[app] - old.sla
              /\ new.distance = get_ue_ap_distance(old.location, apB.location)
              /\ new.throughput =
                     get_ue_throughput(scale, new.distance, total_ues(apB2.n_ues),
                                       apB.uplink_bandwidth, apB.channel_bandwidth,
                                       old.required_bandwidth)
              /\ new.sla = get_ue_sla(new.throughput, old.required_bandwidth)
              /\ new.signal_power = get_ue_sig_power(new.distance)
              /\ apB2.ues_meeting_sla[app] = apB.ues_meeting_sla[app] + new.sla
      ]_vars

\* a handoff was carried out onto an AP so loaded that its share of the uplink,
\* with the UE counted, is what bounds the UE's throughput
C3_Witness ==
    /\ Built
    /\ IsDone(result)
    /\ LET u == Ues[result.returned[1].UE[1]]
           B == Aps[result.returned[1].NEW_AP[1]]
       IN  /\ u.throughput = calculate_network_bandwidth(
                                 total_ues(B.n_ues), B.uplink_bandwidth)
           /\ u.throughput < u.required_bandwidth
           /\ u.throughput < calculate_radio_bandwidth(
                                 calculate_distance_factor(u.distance, scale),
                                 B.channel_bandwidth)

\* C4: perform_handoff(ue_id, ap_id) with ap_id the UE's current AP returns
\* DONE=False with UE, OLD_AP and NEW_AP absent and changes no field of any AP
\* or UE.
C4_SameApIsNoOp ==
    [][\A ue_id \in 1 .. num_ues : \A ap_id \in 1 .. num_aps :
          (/\ Built
           /\ ue_id \in DOMAIN Ues
           /\ Ues[ue_id].ap = ap_id
           /\ perform_handoff(ue_id, ap_id))
          => /\ result' = Returned(Some([DONE |-> FALSE, UE |-> None,
                                         OLD_AP |-> None, NEW_AP |-> None]))
             /\ ap_dict' = ap_dict
             /\ ue_dict' = ue_dict
      ]_vars

\* a handoff to the current AP was requested after another one was carried
\* out: the result is DONE=False, and the maps are as they were
C4_Witness ==
    /\ Built
    /\ result.raised = "None" /\ result.returned # None
    /\ ~result.returned[1].DONE
    /\ prev_ap_dict = ap_dict /\ prev_ue_dict = ue_dict
    /\ \E u \in DOMAIN Ues : Ues[u].distance # 0 /\ Ues[u].sla = 0

\* C5: for every AP and every application class c, ues_meeting_sla[c] is the
\* number of UEs listed in n_ues[c] whose stored sla is 1, so it lies between
\* 0 and the size of n_ues[c].
C5_SlaCounter ==
    Built =>
        \A a \in DOMAIN Aps : \A c \in Apps :
            /\ \A u \in Aps[a].n_ues[c] : u \in DOMAIN Ues
            /\ Aps[a].ues_meeting_sla[c] =
                   Cardinality({u \in Aps[a].n_ues[c] : Ues[u].sla = 1})
            /\ 0 <= Aps[a].ues_meeting_sla[c]
            /\ Aps[a].ues_meeting_sla[c] <= Cardinality(Aps[a].n_ues[c])

\* an AP lists, under one class, a UE that meets its SLA and one that does not,
\* after a handoff that failed half-way took a UE off its AP
C5_Witness ==
    /\ Built
    /\ \E a \in DOMAIN Aps : \E c \in Apps : \E u, v \in Aps[a].n_ues[c] :
           Ues[u].sla = 1 /\ Ues[v].sla = 0
    /\ \E u \in DOMAIN Ues : Places(Aps, u) = {}

\* C6: in every reachable state every UE's stored throughput is
\* min(radio_bandwidth, network_bandwidth, required_bandwidth) with the
\* network bandwidth computed from the number of UEs now on its AP, and its
\* stored sla is 1 exactly when that throughput is at least the required
\* bandwidth.
C6_ThroughputIsCurrent ==
    Built =>
        \A u \in DOMAIN Ues :
            LET ue == Ues[u]
                ap == Aps[ue.ap]
                current == get_ue_throughput(scale, ue.distance,
                                             total_ues(ap.n_ues),
                                             ap.uplink_bandwidth,
                                             ap.channel_bandwidth,
                                             ue.required_bandwidth)
            IN  /\ ue.throughput = current
                /\ (ue.sla = 1) <=> (current >= ue.required_bandwidth)

C8_RoundTripMembership ==
    [][\A u \in 1 .. num_ues : \A A \in 1 .. num_aps :
          (/\ Built
           /\ IsDone(result)
           /\ result.returned[1].UE = Some(u)
           /\ result.returned[1].OLD_AP = Some(A)
           /\ perform_handoff(u, A))
          => LET B == result.returned[1].NEW_AP[1]
                 app == Ues[u].app
             IN  /\ result' = Returned(Some([DONE |-> TRUE, UE |-> Some(u),
                                             OLD_AP |-> Some(B),
                                             NEW_AP |-> Some(A)]))
                 /\ ue_dict'[1][u].ap = A
                 /\ u \in ap_dict'[1][A].n_ues[app]
                 /\ u \notin ap_dict'[1][B].n_ues[app]
                 /\ \A a \in DOMAIN Aps :
                        ap_dict'[1][a].n_ues = prev_ap_dict[1][a].n_ues
      ]_vars

\* a UE was handed back from AP B to the AP that is closest to it, the one it
\* was constructed on, which lists another UE of its class as well
C8_Witness ==
    /\ Built
    /\ IsDone(result)
    /\ LET u == Ues[result.returned[1].UE[1]]
           A == Aps[result.returned[1].NEW_AP[1]]
       IN  /\ A.location \in get_closest_ap_location(
                                 get_aps_in_grid(u.location, aps_per_axis),
                                 u.location)
           /\ Cardinality(A.n_ues[u.app]) >= 2

\* C9: after handing UE u from A to B and back to A, u's distance, throughput,
\* sla, signal_power and neighboring_aps and the ues_meeting_sla counters of A
\* and B are what they were before the first handoff.
C9_RoundTripStats ==
    [][\A u \in 1 .. num_ues : \A A \in 1 .. num_aps :
          (/\ Built
           /\ IsDone(result)
           /\ result.returned[1].UE = Some(u)
           /\ result.returned[1].OLD_AP = Some(A)
           /\ perform_handoff(u, A)
           /\ IsDone(result'))
          => LET B == result.returned[1].NEW_AP[1]
                 before == prev_ue_dict[1][u]
                 after == ue_dict'[1][u]
             IN  /\ after.distance = before.distance
                 /\ after.throughput = before.throughput
                 /\ after.sla = before.sla
                 /\ after.signal_power = before.signal_power
                 /\ after.neighboring_aps = before.neighboring_aps
                 /\ ap_dict'[1][A].ues_meeting_sla =
                        prev_ap_dict[1][A].ues_meeting_sla
                 /\ ap_dict'[1][B].ues_meeting_sla =
                        prev_ap_dict[1][B].ues_meeting_sla
      ]_vars

\* C10: reset_network, called in any reachable state, completes without error
\* and leaves a complete rebuilt network: every AP, num_ues UEs, and every UE
\* listed by the AP it is attached to.
C10_ResetRebuilds ==
    [][reset_network =>
          /\ result'.raised = "None"
          /\ ap_dict' # None
          /\ ue_dict' # None
          /\ DOMAIN ap_dict'[1] = 1 .. (x_units * x_units)
          /\ DOMAIN ue_dict'[1] = 1 .. num_ues
          /\ \A u \in DOMAIN ue_dict'[1] :
                 u \in ap_dict'[1][ue_dict'[1][u].ap].n_ues[ue_dict'[1][u].app]
      ]_vars

(***************************************************************************)
(* Queries of the network and the environment                              *)
(***************************************************************************)
\* the id-taking query just answered, if any
Queried == query[1]

\* the id of a query names an AP (ap_info, ap_sla) or a UE of the network
IdExists(q) ==
    IF q.call \in {"ap_info", "ap_sla"}
    THEN ap_dict # None /\ q.id[1] \in DOMAIN ap_dict[1]
    ELSE ue_dict # None /\ q.id[1] \in DOMAIN ue_dict[1]

\* the environment's last call was a state query for an AP id that its cache
\* (populated first, if it was empty) does not hold
EnvAskedUnknownAp ==
    /\ env_call # None
    /\ env_call[1].call \in {"get_network_state", "get_ue_ap_state"}
    /\ env_call[1].ap_id \notin DOMAIN env_ap_dict

\* C11: an id-taking query of the network (ap_info, ue_info, ue_throughput,
\* ue_sla, ue_signal_power, ue_neighboring_aps, ap_sla) for an id the network
\* does not hold ends in the not-found error (KeyError) and changes nothing
\* in the network, and so does get_network_state / get_ue_ap_state of the
\* environment for an AP id it does not hold.
C11_UnknownIdIsNotFound ==
    [][/\ (query' # None /\ query'[1].call \in IdAccessors /\ ~IdExists(query'[1]))
            => /\ query'[1].result.raised = "KeyError"
               /\ UNCHANGED <<num_ues, location_to_ap_lookup, ap_dict, ue_dict>>
       /\ (env_vars' # env_vars /\ EnvAskedUnknownAp')
            => /\ env_result'.raised = "KeyError"
               /\ UNCHANGED <<num_ues, location_to_ap_lookup, ap_dict, ue_dict>>
      ]_vars

\* C12: an accessor call (ap_info, ue_info, ap_list, ue_list, ue_sla,
\* ue_throughput, ue_signal_power, ue_neighboring_aps, ap_sla) changes no AP
\* and no UE of the network, and an accessor called again right after itself,
\* with the same id, gives the same result.
C12_AccessorsReadOnly ==
    [][query' # None =>
          /\ UNCHANGED <<num_ues, location_to_ap_lookup, ap_dict, ue_dict>>
          /\ (/\ query # None
              /\ query'[1].call = Queried.call
              /\ query'[1].id = Queried.id) => query'[1].result = Queried.result
      ]_vars

\* a UE that was handed off is asked for its SLA, and the answer is a value
C12_Witness ==
    /\ query # None
    /\ Queried.call = "ue_sla"
    /\ Queried.result.raised = "None"
    /\ IsDone(result)
    /\ ue_dict[1][Queried.id[1]].ap # prev_ue_dict[1][Queried.id[1]].ap

(***************************************************************************)
(* Steps and resets of the environment                                     *)
(***************************************************************************)
\* the environment's last call, and that it was a step
EnvCall == env_call[1]
Stepped == env_call # None /\ EnvCall.call = "_step"

\* this step of the system is a call of the environment's _step
IsStep == env_vars' # env_vars /\ Stepped'

Backend == <<num_ues, location_to_ap_lookup, ap_dict, ue_dict>>

\* C13: a step for a UE that, as passed, is attached to ap_id already returns
\* the state it was given as next_state, sends no request to the client, and
\* changes neither the network nor the environment's AP and UE caches.
C13_NoOpStep ==
    [][(IsStep /\ env_ue_dict[EnvCall'.ue].ap = EnvCall'.ap_id) =>
          /\ env_result'.raised = "None"
          /\ env_result'.returned.next_state = EnvCall'.state
          /\ EnvCall'.requests = <<>>
          /\ UNCHANGED Backend
          /\ UNCHANGED <<env_ap_dict, env_ue_dict>>
      ]_vars

\* a step with action HANDOFF to the AP the UE is on was answered
C13_Witness ==
    /\ Stepped
    /\ EnvCall.action = HANDOFF
    /\ EnvCall.requests = <<>>
    /\ env_ue_dict[EnvCall.ue].ap = EnvCall.ap_id
    /\ env_result.raised = "None"
    /\ env_result.returned.next_state = EnvCall.state

\* this step is a _step whose request reached the network, which carried the
\* handoff out
HandedOff ==
    /\ IsStep
    /\ EnvCall'.answer # None
    /\ EnvCall'.answer[1].raised = "None"
    /\ EnvCall'.answer[1].returned.DONE

\* the cached AP a holds what the network's AP a holds now
CachedApIsCurrent(a) ==
    /\ a \in DOMAIN env_ap_dict
    /\ env_ap_dict[a].n_ues = ap_dict[1][a].n_ues
    /\ env_ap_dict[a].ues_meeting_sla = ap_dict[1][a].ues_meeting_sla

\* next_state, but for sig_power, is the NETWORK_STATE of the network's UE u
\* and AP b
IsStateOf(next_state, u, b) ==
    LET ue == ue_dict[1][u]
        ap == ap_dict[1][b]
    IN  /\ u \in ap.n_ues[ue.app]
        /\ next_state.ue_sla = ue.sla
        /\ next_state.app = APPS_ID[ue.app]
        /\ next_state.video_ues = Cardinality(ap.n_ues["video"])
        /\ next_state.web_ues = Cardinality(ap.n_ues["web"])
        /\ next_state.avg_video_sla =
               get_avg_app_sla(Cardinality(ap.n_ues["video"]),
                               ap.ues_meeting_sla["video"])
        /\ next_state.avg_web_sla =
               get_avg_app_sla(Cardinality(ap.n_ues["web"]),
                               ap.ues_meeting_sla["web"])

\* the claim of C14 about the state after a step whose handoff was done
StepFollowsNetwork ==
    LET u == EnvCall.ue
        b == EnvCall.ap_id
        a == result.returned[1].OLD_AP[1]
    IN  /\ env_result.raised = "None"
        /\ IsStateOf(env_result.returned.next_state, u, b)
        /\ CachedApIsCurrent(a)
        /\ CachedApIsCurrent(b)
        /\ env_ue_dict[u].ap = ue_dict[1][u].ap
        /\ env_ue_dict[u].sla = ue_dict[1][u].sla
        /\ env_ue_dict[u].neighboring_aps = ue_dict[1][u].neighboring_aps

\* C14: after a step whose handoff succeeds, next_state is the NETWORK_STATE
\* of the UE and the new AP as the network holds them after the handoff
\* (ue_sla, the new AP's per-class counts with the UE included, the new AP's
\* averages), and the cached old AP, new AP (n_ues, ues_meeting_sla) and UE
\* (ap, sla, neighboring_aps) equal the network's.
C14_StepFollowsNetwork == [][HandedOff => StepFollowsNetwork']_vars

\* C15: after a step whose handoff succeeds, the cached UE's signal_power and
\* the sig_power of next_state are the UE's signal power at the new AP, the
\* one the network holds for the UE after the handoff.
C15_SigPowerFollowsNetwork ==
    [][HandedOff =>
          LET u == EnvCall'.ue
          IN  /\ env_ue_dict'[u].signal_power = ue_dict'[1][u].signal_power
              /\ env_result'.raised = "None" =>
                     env_result'.returned.next_state.sig_power =
                         ue_dict'[1][u].signal_power
      ]_vars

\* this step is a _step whose request the network answered with DONE = False
Rejected ==
    /\ IsStep
    /\ EnvCall'.answer = Some(Returned([DONE |-> FALSE]))

\* C16: a step whose handoff request the client answers with DONE = False
\* returns the state it was given as next_state and leaves the cached APs and
\* UEs as they were.
C16_RejectedHandoff ==
    [][Rejected =>
          /\ env_result'.raised = "None"
          /\ env_result'.returned.next_state = EnvCall'.state
          /\ UNCHANGED <<env_ap_dict, env_ue_dict>>
      ]_vars

\* the cache has the UE on another AP than the network has; a step asked for
\* the AP the UE is on in the network and got the state it passed
C16_Witness ==
    /\ Stepped
    /\ EnvCall.requests = <<"perform_handoff">>
    /\ result = Aborted
    /\ ue_dict[1][EnvCall.ue].ap = EnvCall.ap_id
    /\ env_ue_dict[EnvCall.ue].ap # EnvCall.ap_id
    /\ env_result.raised = "None"
    /\ env_result.returned.next_state = EnvCall.state

\* the environment's last call was a reset, and the client answered both of
\* its requests with a list
ResetAnswered ==
    /\ env_call # None
    /\ EnvCall.call = "_reset"
    /\ EnvCall.ap_list.raised = "None"
    /\ EnvCall.ue_list # None
    /\ EnvCall.ue_list[1].raised = "None"

\* C17: a reset in which the client's AP list or UE list comes back empty
\* raises ExternalServerError, whatever the caches held before: on the first
\* reset and on every later one.
C17_EmptyListFailsReset ==
    (/\ ResetAnswered
     /\ \/ EnvCall.ap_list.returned = <<>>
        \/ EnvCall.ue_list[1].returned = <<>>)
        => env_result = ExternalServerError

\* the cached AP equals the AP record the client returned
SameAp(cached, returned) ==
    /\ cached.location = returned.location
    /\ cached.n_ues = returned.n_ues
    /\ cached.ues_meeting_sla = returned.ues_meeting_sla

\* the cached UE equals the UE record the client returned
SameUe(cached, returned) ==
    /\ cached.ap = returned.ap
    /\ cached.sla = returned.sla
    /\ cached.neighboring_aps = returned.neighboring_aps
    /\ cached.signal_power = returned.signal_power

\* C18: after a reset that the client answered with its lists of APs and UEs
\* (neither empty) and that returned normally, every cached AP (location,
\* n_ues, ues_meeting_sla) and every cached UE (ap, sla, neighboring_aps,
\* signal_power) equals the record the client returned in that reset, also
\* for an id that was cached before, and the cached ids are the returned ids.
C18_ResetRefreshesCaches ==
    (/\ ResetAnswered
     /\ EnvCall.ap_list.returned # <<>>
     /\ EnvCall.ue_list[1].returned # <<>>
     /\ env_result = Returned(None))
        => LET aps == EnvCall.ap_list.returned
               ues == EnvCall.ue_list[1].returned
           IN  /\ DOMAIN env_ap_dict = {aps[i].ap_id : i \in DOMAIN aps}
               /\ DOMAIN env_ue_dict = {ues[i].ue_id : i \in DOMAIN ues}
               /\ \A i \in DOMAIN aps : SameAp(env_ap_dict[aps[i].ap_id], aps[i])
               /\ \A i \in DOMAIN ues : SameUe(env_ue_dict[ues[i].ue_id], ues[i])

\* the client failed a request of the environment's last call: the request
\* for the AP list or the one for the UE list (reset), or the one request of
\* a state query or a step
ApListFailed == EnvCall.call = "_reset" /\ EnvCall.ap_list = ExternalServerError
UeListFailed == EnvCall.call = "_reset" /\ EnvCall.ue_list = Some(ExternalServerError)
RequestFailed == EnvCall.call # "_reset" /\ EnvCall.answer = Some(ExternalServerError)

\* C19: when a client call that the environment makes through
\* execute_client_call fails with ExternalServerError, the environment's
\* caller gets ExternalServerError, and the caches are as they were before
\* the failed call.
C19_ClientErrorPropagates ==
    [][(/\ env_vars' # env_vars
        /\ ApListFailed' \/ UeListFailed' \/ RequestFailed') =>
          /\ env_result' = ExternalServerError
          /\ UeListFailed' \/ UNCHANGED env_ap_dict
          /\ UNCHANGED env_ue_dict
      ]_vars

(***************************************************************************)
(* Rewards                                                                 *)
(***************************************************************************)
\* the UE-based term of the reward of the step just returned: the reward less
\* its AP-based term
UeTerm ==
    env_result.returned.reward
        - reward_based_on_ap_state(EnvCall.action, EnvCall.state,
                                   env_result.returned.next_state)

\* the UE's SLA before the step and after it
SlaBefore == EnvCall.sla_before
SlaAfter == env_ue_dict[EnvCall.ue].sla

\* C20: in a step with action HANDOFF the UE-based term of the reward is -2
\* when the UE met its SLA neither before nor after, +3 when it gained it,
\* -4 when it lost it and -1 when it kept it.
C20_HandoffUeTerm ==
    (Stepped /\ env_result.raised = "None" /\ EnvCall.action = HANDOFF) =>
        UeTerm = IF SlaBefore = 0 /\ SlaAfter = 0 THEN -200
                 ELSE IF SlaBefore = 0 /\ SlaAfter = 1 THEN 300
                 ELSE IF SlaBefore = 1 /\ SlaAfter = 0 THEN -400
                 ELSE -100

\* a HANDOFF step brought a UE that did not meet its SLA to an AP where it does
C20_Witness ==
    /\ Stepped
    /\ env_result.raised = "None"
    /\ EnvCall.action = HANDOFF
    /\ SlaBefore = 0
    /\ SlaAfter = 1
    /\ UeTerm = 300

\* C21: in a step with action STAY whose requests the client answered, the
\* step returns a reward, and its UE-based term is -1 when the UE met its SLA
\* neither before nor after, +1 when it met it before and after, and 0 when
\* the two differ.
C21_StayUeTerm ==
    (Stepped /\ EnvCall.action = STAY /\ ~RequestFailed) =>
        /\ env_result.raised = "None"
        /\ UeTerm = IF SlaBefore = 0 /\ SlaAfter = 0 THEN -100
                    ELSE IF SlaBefore # 0 /\ SlaAfter # 0 THEN 100
                    ELSE 0

\* the call of get_reward just made, and its arguments
RewardCalled == query # None /\ Queried.call = "get_reward"
Args == Queried.args

\* the spec's sub-term for one class on HANDOFF: -unit if the average is
\* unchanged and not perfect, half of that if unchanged and perfect, +unit if
\* improved, -unit if worsened
SpecSubTerm(old_avg, new_avg, unit) ==
    IF old_avg = new_avg THEN (IF old_avg = 10 THEN -(unit \div 2) ELSE -unit)
    ELSE IF old_avg < new_avg THEN unit
    ELSE -unit

\* the spec's AP-based term
SpecApTerm(action, old_state, new_state) ==
    IF action = HANDOFF
    THEN SpecSubTerm(old_state.avg_video_sla, new_state.avg_video_sla, 100)
         + SpecSubTerm(old_state.avg_web_sla, new_state.avg_web_sla, 50)
    ELSE (IF old_state.avg_video_sla = 10 THEN 100 ELSE 0)
         + (IF old_state.avg_web_sla = 10 THEN 50 ELSE 0)

\* the spec's UE-based term
SpecUeTerm(action, old_sla, new_sla) ==
    IF action = HANDOFF
    THEN IF old_sla = 0 /\ new_sla = 0 THEN -200
         ELSE IF old_sla = 0 THEN 300
         ELSE IF new_sla = 0 THEN -400
         ELSE -100
    ELSE IF old_sla = 0 /\ new_sla = 0 THEN -100
         ELSE IF old_sla # 0 /\ new_sla # 0 THEN 100
         ELSE 0

\* C22: for every action, old state and new state with averages 0.0 .. 1.0
\* the AP-based term is the spec's (on HANDOFF a video sub-term of -1, -0.5,
\* +1 or -1 and a web sub-term of half that; on STAY +1 for a perfect video
\* average of the old state and +0.5 for a perfect web average), and
\* get_reward returns the UE-based term plus the AP-based term.
C22_ApTermAndTotal ==
    RewardCalled =>
        /\ reward_based_on_ap_state(Args.action, Args.old_state, Args.new_state)
               = SpecApTerm(Args.action, Args.old_state, Args.new_state)
        /\ Queried.result =
               Returned(SpecUeTerm(Args.action, Args.ue_old_sla, Args.ue.sla)
                        + SpecApTerm(Args.action, Args.old_state, Args.new_state))

\* what the spec's tables and the code's missing STAY branch give for the
\* arguments of a get_reward call, written from the arguments alone
RewardOutcome(args) ==
    IF args.action = STAY /\ (args.ue_old_sla = 0) # (args.ue.sla = 0)
    THEN Raised("UnboundLocalError")
    ELSE Returned(SpecUeTerm(args.action, args.ue_old_sla, args.ue.sla)
                  + SpecApTerm(args.action, args.old_state, args.new_state))

\* C23: the outcome of get_reward is determined by its arguments (action,
\* old_state, new_state, ue, ue_old_sla) alone, whatever state the network is
\* in, and the call changes nothing in the network, in the environment's
\* caches or in the records it was given.
C23_RewardIsPure ==
    [][(query = None /\ RewardCalled') =>
          /\ Queried'.result = RewardOutcome(Args')
          /\ UNCHANGED Backend
          /\ UNCHANGED <<env_ap_dict, env_ue_dict>>
      ]_vars

\* get_reward was called with a UE that meets its SLA while the network's
\* first UE, handed off to the far AP, does not
C23_Witness ==
    /\ RewardCalled
    /\ Args.ue.sla = 1
    /\ ue_dict[1][EnvUe].sla = 0
    /\ Queried.result.raised = "None"

\* C24: the total reward of a HANDOFF that changes nothing (the new state is
\* the old state and the UE's SLA is what it was) is negative, and the total
\* reward of a HANDOFF in which the UE gains its SLA is positive, for every
\* old and new state.
C24_UnnecessaryHandoffPenalised ==
    (RewardCalled /\ Args.action = HANDOFF) =>
        /\ (Args.new_state = Args.old_state /\ Args.ue.sla = Args.ue_old_sla)
               => Queried.result.raised = "None" /\ Queried.result.returned < 0
        /\ (Args.ue_old_sla = 0 /\ Args.ue.sla = 1)
               => Queried.result.raised = "None" /\ Queried.result.returned > 0

\* the smallest reward of a HANDOFF that gains the SLA: both averages of the
\* AP worsened
C24_Witness ==
    /\ RewardCalled
    /\ Args.action = HANDOFF
    /\ Args.ue_old_sla = 0
    /\ Args.ue.sla = 1
    /\ Args.new_state.avg_video_sla < Args.old_state.avg_video_sla
    /\ Args.new_state.avg_web_sla < Args.old_state.avg_web_sla
    /\ Queried.result = Returned(150)

(***************************************************************************)
(* Values handed out by the network                                        *)
(***************************************************************************)
\* C25: a value returned by ap_info, ue_info, ap_list or ue_list, or in the
\* UE, OLD_AP and NEW_AP fields of a handoff result, is a snapshot: whatever
\* handoffs follow, its holder reads in it the contents it had when it was
\* returned.
C25_ReturnedValuesAreSnapshots ==
    (query # None /\ Queried.result.raised = "None") =>
        to_dict(Queried) = Queried.result.returned

\* every AP's sets list the UEs whose ap and app fields name it, and its
\* counters count those of them whose sla field is 1
Agree(aps, ues) ==
    \A a \in DOMAIN aps : \A c \in Apps :
        /\ aps[a].n_ues[c] = {u \in DOMAIN ues : ues[u].ap = a /\ ues[u].app = c}
        /\ aps[a].ues_meeting_sla[c] =
               Cardinality({u \in DOMAIN ues :
                               ues[u].ap = a /\ ues[u].app = c /\ ues[u].sla = 1})

\* both requests have returned or raised
BothComplete == \A request \in Requests : handoffs[request].pc = "done"

\* a request moved while the other was inside handoff_to_ap
Interleaved == \E request \in Requests : handoffs[request].overlapped

\* C26: handoffs must be serial. Two perform_handoff requests that involve the
\* same AP and run one after the other leave every AP's occupancy sets and SLA
\* counter in agreement with the UEs' ap and sla fields; interleaved at the
\* granularity of handoff_to_ap's steps they can leave them in disagreement:
\* the sets or counters disagree after both complete only if the requests
\* were interleaved, and such a state is reachable.
C26_CorruptOnlyIfInterleaved ==
    (BothComplete /\ ~Agree(Aps, Ues)) => Interleaved

\* both requests have completed, neither raised, and an AP's sets or counter
\* disagree with the UEs' fields
C26_Witness ==
    /\ BothComplete
    /\ \A request \in Requests : handoffs[request].raised = "None"
    /\ Interleaved
    /\ ~Agree(Aps, Ues)

\* query records a call of initialize_client
ClientInitialized == query # None /\ query[1].call = "initialize_client"

\* C27: initialize_client returns a client instance of the class registered
\* for env_config['TYPE'] for every registered backend type ('Dev' and
\* 'Prod'), and raises ClientNotImplemented, without constructing any client,
\* for every unregistered type.
C27_InitializeClient ==
    ClientInitialized =>
        LET env_type == query[1].args.env_config.TYPE
            done == query[1].result
        IN  IF env_type \in {"Dev", "Prod"}
            THEN /\ done.result.raised = "None"
                 /\ done.result.returned.class = CLIENTS[env_type]
            ELSE /\ done.result = Raised("ClientNotImplemented")
                 /\ done.constructed = <<>>

\* query records a run of a subcommand of Cellular
CliInvoked == query # None /\ query[1].call = "cli"

\* the triple each subcommand passes to run_experiment
Triple ==
    [qlearning_naive |-> <<"Cellular", "Qlearning", "Naive">>,
     qlearning_linear_regression |-> <<"Cellular", "Qlearning", "LinearRegression">>,
     qlearning_nn |-> <<"Cellular", "Qlearning", "NN">>]

\* C28: each Cellular CLI subcommand invokes run_experiment with the fixed
\* triple for that subcommand - qlearning_naive with ('Cellular', 'Qlearning',
\* 'Naive'), qlearning_linear_regression with ('Cellular', 'Qlearning',
\* 'LinearRegression'), qlearning_nn with ('Cellular', 'Qlearning', 'NN') -
\* and the command exits with code 0.
C28_CliSubcommands ==
    CliInvoked =>
        /\ query[1].result.calls = <<Triple[query[1].args.command]>>
        /\ query[1].result.exit_code = 0

\* qlearning_nn was run and its experiment raised an exception
C28_Witness ==
    /\ CliInvoked
    /\ query[1].args.command = "qlearning_nn"
    /\ query[1].result.experiment.raised # "None"

\* query records the placement of a network's APs
ApsPlaced == query # None /\ query[1].call = "_place_aps"

\* C29: AP placement. With x_units = floor(sqrt(num_aps)) the simulator
\* creates exactly x_units * x_units APs with ids 1 .. x_units * x_units; the
\* AP at (aps_per_axis[i], aps_per_axis[j]), i and j counted from 0, has id
\* 1 + i * x_units + j; AP locations are pairwise distinct; and the reverse
\* lookup maps every AP's location to that AP's id (it is the inverse of
\* id -> location).
C29_ApPlacement ==
    ApsPlaced =>
        LET n == query[1].args.num_aps
            placed == query[1].result
            k == placed.x_units
            axis == placed.aps_per_axis
            aps == placed.ap_dict
            lookup == placed.location_to_ap_lookup
        IN  /\ k * k <= n /\ n < (k + 1) * (k + 1)
            /\ DOMAIN aps = 1 .. (k * k)
            /\ \A id \in DOMAIN aps : aps[id].ap_id = id
            /\ \A i, j \in 0 .. (k - 1) :
                   aps[1 + i * k + j].location = <<axis[i + 1], axis[j + 1]>>
            /\ \A a, b \in DOMAIN aps :
                   a # b => aps[a].location # aps[b].location
            /\ DOMAIN lookup = {aps[id].location : id \in DOMAIN aps}
            /\ \A id \in DOMAIN aps : lookup[aps[id].location] = id

\* a network asked to have 10 APs was placed: 9 APs on a 3 x 3 grid; and the
\* network of the other specifications is placed the same way
C29_Witness ==
    /\ ApsPlaced
    /\ query[1].args.num_aps = 10
    /\ Len(query[1].result.ap_dict) = 9
    /\ place_aps(num_aps, scale).ap_dict = _place_aps
    /\ place_aps(num_aps, scale).location_to_ap_lookup = PlacedLookup

\* query records the neighbour search for a location UE generation drew
UeLocated == query # None /\ query[1].call = "get_neighboring_aps"

\* C30: for every UE location that UE generation can produce on a grid with
\* at least 2 APs per axis, within_grid consists of exactly 4 distinct AP
\* locations, the corners of the grid cell enclosing the UE.
C30_FourCorners ==
    (UeLocated /\ x_units >= 2) =>
        LET ue_location == query[1].args.ue_location
            within_grid == query[1].result.within_grid
        IN  /\ Cardinality(within_grid) = 4
            /\ \E i, j \in 1 .. (x_units - 1) :
                   /\ within_grid = {aps_per_axis[i], aps_per_axis[i + 1]}
                                        \X {aps_per_axis[j], aps_per_axis[j + 1]}
                   /\ aps_per_axis[i] <= ue_location[1]
                   /\ ue_location[1] <= aps_per_axis[i + 1]
                   /\ aps_per_axis[j] <= ue_location[2]
                   /\ ue_location[2] <= aps_per_axis[j + 1]

\* query records a call of get_interval
IntervalCalled == query # None /\ query[1].call = "get_interval"

\* C31: get_interval(value, num_list) on a strictly increasing list of at
\* least 2 coordinates returns, for every value with first <= value <= last,
\* a pair (lo, hi) of adjacent list elements with lo <= value <= hi (so
\* get_interval(345, [100, 300, 500, 700]) = (300, 500)); for a value below
\* the first or above the last element it returns the clamped pair made of
\* the nearest edge coordinate.
C31_Interval ==
    IntervalCalled =>
        LET value == query[1].args.value
            num_list == query[1].args.num_list
            n == Len(num_list)
            pair == query[1].result
        IN  /\ value < num_list[1] => pair = <<num_list[1], num_list[1]>>
            /\ value > num_list[n] => pair = <<num_list[n], num_list[n]>>
            /\ (num_list[1] <= value /\ value <= num_list[n]) =>
                   /\ \E i \in 1 .. (n - 1) :
                          pair = <<num_list[i], num_list[i + 1]>>
                   /\ pair[1] <= value
                   /\ value <= pair[2]
            /\ (value = 345 /\ num_list = <<100, 300, 500, 700>>) =>
                   pair = <<300, 500>>

\* get_interval(345, [100, 300, 500, 700]) was called
C31_Witness ==
    /\ IntervalCalled
    /\ query[1].args.value = 345
    /\ query[1].args.num_list = <<100, 300, 500, 700>>
    /\ query[1].result = <<300, 500>>

\* query records a neighbour search
NeighborsSearched == query # None /\ query[1].call = "neighboring_aps_call"

\* the position of coordinate v on the axis
AxisIndex(axis, v) == CHOOSE i \in 1 .. Len(axis) : axis[i] = v

Abs(v) == IF v < 0 THEN -v ELSE v

\* the AP locations of the grid at most moves axis-aligned moves to an
\* adjacent AP away from one of corners
Reachable(corners, axis, moves) ==
    {p \in {<<axis[i], axis[j]>> : i, j \in 1 .. Len(axis)} :
        \E c \in corners :
            Abs(AxisIndex(axis, p[1]) - AxisIndex(axis, c[1]))
            + Abs(AxisIndex(axis, p[2]) - AxisIndex(axis, c[2])) <= moves}

\* what C32 says of a search that returned
RestAsStated(args, neighboring_aps) ==
    /\ neighboring_aps.rest =
           Reachable(neighboring_aps.within_grid,
                     axis_locations(int_sqrt(args.num_aps), scale),
                     args.radius - 1) \ neighboring_aps.within_grid
    /\ neighboring_aps.rest \cap neighboring_aps.within_grid = {}
    /\ args.radius = 1 => neighboring_aps.rest = {}

\* C32: for every integer radius r >= 1, get_neighboring_aps terminates and
\* returns rest equal to the set of valid grid AP locations reachable from
\* some within_grid corner by at most r - 1 axis-aligned moves to an adjacent
\* AP, minus within_grid itself; rest is disjoint from within_grid, contains
\* no duplicates, and is empty for r = 1.
C32_RestIsReachable ==
    NeighborsSearched =>
        /\ query[1].result.raised = "None"
        /\ RestAsStated(query[1].args, query[1].result.returned)

\* with at least 2 APs per axis the search returns, and rest is as stated
RestIsReachableOnGrids ==
    (NeighborsSearched /\ int_sqrt(query[1].args.num_aps) >= 2) =>
        /\ query[1].result.raised = "None"
        /\ RestAsStated(query[1].args, query[1].result.returned)

\* the ids of within_grid and rest together, for the location of UE u
UnionIds(u) ==
    LET neighboring_aps == get_neighboring_aps(Ues[u].location, aps_per_axis,
                                               explore_radius)
    IN  {location_to_ap_lookup[l] :
            l \in neighboring_aps.within_grid \cup neighboring_aps.rest}

\* query records what ue_neighboring_aps returned for UE u
NeighborsAsked(u) ==
    /\ query # None
    /\ query[1].call = "ue_neighboring_aps"
    /\ query[1].id = Some(u)
    /\ query[1].result.raised = "None"

UeAttached ==
    /\ query # None
    /\ query[1].call = "get_ue_ap"
    /\ query[1].result.raised = "None"

\* the square of the Euclidean distance of two locations
SquaredDistance(a, b) ==
    (a[1] - b[1]) * (a[1] - b[1]) + (a[2] - b[2]) * (a[2] - b[2])

\* C34: right after initialization every UE is attached to the closest AP:
\* the AP it is attached to is a member of its within_grid set, no
\* within_grid AP is strictly closer (Euclidean distance), and no AP of the
\* whole grid is strictly closer either.
C34_AttachedToClosest ==
    UeAttached =>
        LET aps == place_aps(query[1].args.num_aps, scale).ap_dict
            ue_location == query[1].args.ue_location
            attached == aps[query[1].result.returned.current_ap_id].location
            within_grid == query[1].result.returned.within_grid
        IN  /\ attached \in within_grid
            /\ \A l \in within_grid :
                   SquaredDistance(l, ue_location)
                       >= SquaredDistance(attached, ue_location)
            /\ \A id \in DOMAIN aps :
                   SquaredDistance(aps[id].location, ue_location)
                       >= SquaredDistance(attached, ue_location)

\* a UE was drawn inside a cell of a 3 x 3 grid, nearer to one of the cell's
\* 4 corners than to the others, and attached
C34_Witness ==
    /\ UeAttached
    /\ query[1].args.num_aps = 9
    /\ query[1].args.ue_location = <<7, 5>>
    /\ Cardinality(query[1].result.returned.within_grid) = 4
    /\ query[1].result.returned.current_ap_id = 5

\* query records a call of get_avg_app_sla
AvgSlaCalled == query # None /\ query[1].call = "get_avg_app_sla"

\* C35: get_avg_app_sla(total, meeting) returns meeting / total rounded to one
\* decimal place for every 0 <= meeting <= total with total > 0, returns 0.0
\* when total is 0, and its result always lies in [0.0, 1.0] for the
\* per-class counts and counters reachable in the environment's caches. (In
\* tenths: the result is a whole number of tenths no farther than half a
\* tenth from meeting / total.)
C35_AvgSlaRounded ==
    AvgSlaCalled =>
        LET total == query[1].args.n_app_ues
            meeting == query[1].args.ues_meeting_sla
            avg == query[1].result
        IN  /\ total = 0 => avg = 0
            /\ total > 0 => Abs(20 * meeting - 2 * avg * total) <= total
            /\ 0 <= avg
            /\ avg <= 10

\* the average of 19 UEs out of 20 was asked for, and is 0.9: the double
\* nearest 0.95 lies below it
C35_Witness ==
    /\ AvgSlaCalled
    /\ query[1].args.n_app_ues = 20
    /\ query[1].args.ues_meeting_sla = 19
    /\ query[1].result = 9

\* C36: a perform_handoff that ends in a not-found error (unknown ue_id, or a
\* target ap_id that does not exist) leaves the simulator state unchanged:
\* every AP's occupancy sets and SLA counters and every UE's fields are the
\* same as before the call, and a later valid handoff of the same UE still
\* succeeds. (A step that ends in KeyError on a built network changes neither
\* map, and the valid handoff requested right after such a step is carried
\* out.)
C36_NotFoundChangesNothing ==
    [][/\ (Built /\ result'.raised = "KeyError")
          => /\ ap_dict' = ap_dict
             /\ ue_dict' = ue_dict
       /\ \A ue_id \in 1 .. num_ues : \A ap_id \in 1 .. num_aps :
              (/\ Built
               /\ result.raised = "KeyError"
               /\ ue_id \in DOMAIN Ues
               /\ ap_id \in DOMAIN Aps
               /\ Ues[ue_id].ap # ap_id
               /\ perform_handoff(ue_id, ap_id))
              => IsDone(result')
      ]_vars

\* C37: a successful handoff of UE u from AP A to AP B changes no field of any
\* UE other than u and no field of any AP other than A and B; the location,
\* app and required_bandwidth of u and the ids, locations and capacity
\* parameters of all APs never change; and the handoff succeeds for every
\* existing target AP other than A, whether or not B is in u's neighbor list
\* and whatever B's occupancy is relative to max_connections.
C37_HandoffFrame ==
    [][/\ IsDone(result') =>
              LET r == result'.returned[1]
              IN  /\ \A u \in DOMAIN Ues \ {r.UE[1]} :
                         ue_dict'[1][u] = Ues[u]
                  /\ \A a \in DOMAIN Aps \ {r.OLD_AP[1], r.NEW_AP[1]} :
                         ap_dict'[1][a] = Aps[a]
       /\ (Built /\ Built') =>
              /\ DOMAIN ue_dict'[1] = DOMAIN Ues
              /\ DOMAIN ap_dict'[1] = DOMAIN Aps
              /\ \A u \in DOMAIN Ues :
                     /\ ue_dict'[1][u].ue_id = Ues[u].ue_id
                     /\ ue_dict'[1][u].location = Ues[u].location
                     /\ ue_dict'[1][u].app = Ues[u].app
                     /\ ue_dict'[1][u].required_bandwidth
                            = Ues[u].required_bandwidth
              /\ \A a \in DOMAIN Aps :
                     /\ ap_dict'[1][a].ap_id = Aps[a].ap_id
                     /\ ap_dict'[1][a].location = Aps[a].location
                     /\ ap_dict'[1][a].max_connections = Aps[a].max_connections
                     /\ ap_dict'[1][a].uplink_bandwidth = Aps[a].uplink_bandwidth
                     /\ ap_dict'[1][a].channel_bandwidth
                            = Aps[a].channel_bandwidth
       /\ \A ue_id \in 1 .. num_ues : \A ap_id \in 1 .. num_aps :
              (/\ Built
               /\ ue_id \in DOMAIN Ues
               /\ ap_id \in DOMAIN Aps
               /\ Ues[ue_id].ap # ap_id
               /\ perform_handoff(ue_id, ap_id))
              => IsDone(result')
      ]_vars

\* C38: the effect of step on the backend and on the environment's caches does
\* not depend on the action: step requests a handoff exactly when the UE's ap
\* differs from ap_id, for action STAY as well as for action HANDOFF, and the
\* action value influences only the reward; in every step at most one request
\* is sent to the client. (The caches a step leaves, the requests it sent and,
\* where both return, its next_state are those the same step with the other
\* action and the same answer from the client leaves; the network is changed
\* only by the perform_handoff(ue_id, ap_id) the request asks for.)
C38_StepEffectIgnoresAction ==
    [][IsStep =>
          LET c == EnvCall'
              other == _step(env_ap_dict, env_ue_dict, c.state,
                             IF c.action = STAY THEN HANDOFF ELSE STAY,
                             c.ue, c.ap_id,
                             IF c.answer = None THEN ExternalServerError
                             ELSE c.answer[1])
          IN  /\ c.action \in {STAY, HANDOFF}
              /\ (c.requests # <<>>) <=> (env_ue_dict[c.ue].ap # c.ap_id)
              /\ Len(c.requests) <= 1
              /\ \A i \in DOMAIN c.requests : c.requests[i] = "perform_handoff"
              /\ other.requests = c.requests
              /\ other.aps = env_ap_dict'
              /\ other.ues = env_ue_dict'
              /\ (other.result.raised = "None" /\ env_result'.raised = "None")
                     => other.result.returned.next_state
                            = env_result'.returned.next_state
              /\ c.requests = <<>> => UNCHANGED Backend
              /\ Backend' # Backend => perform_handoff(c.ue, c.ap_id)
      ]_vars

\* a step with action STAY for an AP the UE was not on sent its one request,
\* the network carried the handoff out, and the cache has the UE on that AP
C38_Witness ==
    /\ Stepped
    /\ EnvCall.action = STAY
    /\ EnvCall.requests = <<"perform_handoff">>
    /\ Built
    /\ IsDone(result)
    /\ Ues[EnvCall.ue].ap = EnvCall.ap_id
    /\ env_ue_dict[EnvCall.ue].ap = EnvCall.ap_id

\* C39: the average SLA the environment reports for an application class of
\* an AP is 1.0 (the value the reward function treats as perfect) only when
\* every UE of that class attached to the AP meets SLA, i.e. only when
\* meeting == total > 0, for every per-class occupancy up to max_connections.
C39_PerfectOnlyIfAllMeet ==
    (AvgSlaCalled /\ query[1].result = 10) =>
        /\ query[1].args.n_app_ues > 0
        /\ query[1].args.ues_meeting_sla = query[1].args.n_app_ues

\* C39, amended: the average SLA reported for a class of up to
\* max_connections UEs is 1.0 exactly when the class has UEs and more than 19
\* in 20 of them meet SLA; for a class of up to 20 UEs that is only when all
\* of them do.
C39_PerfectOnlyIfNearlyAllMeet ==
    AvgSlaCalled =>
        LET total == query[1].args.n_app_ues
            meeting == query[1].args.ues_meeting_sla
        IN  /\ query[1].result = 10
                   <=> (total > 0 /\ 20 * meeting > 19 * total)
            /\ (query[1].result = 10 /\ total <= 20)
                   => (total > 0 /\ meeting = total)

\* the average of a class of 21 UEs of which 20 meet SLA was asked for, and
\* is 1.0
C39_Witness ==
    /\ AvgSlaCalled
    /\ query[1].args.n_app_ues = 21
    /\ query[1].args.ues_meeting_sla = 20
    /\ query[1].result = 10

====
